---------------------------- MODULE Spec2Model ----------------------------
(***************************************************************************)
(* A model of the lead-generation tool: the heuristic lead scorer          *)
(* (src/lead_scorer.py), the two scrapers (src/reddit_scraper.py,          *)
(* src/linkedin_scraper.py), the message generator                         *)
(* (src/message_generator.py) and the worksheets they share.               *)
(*                                                                         *)
(* Numbers.  Every weight of the scoring configuration has one decimal, so *)
(* weights and multipliers are kept in tenths (5.0 is 50, 1.3 is 13).  A   *)
(* rule-based score is a sum in tenths times three multipliers in tenths,  *)
(* so it is kept in units of 1/10000 ("e4"); a final score, which blends   *)
(* 0.4 and 0.6 of two numbers, is kept in units of 1/100000 ("e5").  The   *)
(* arithmetic is exact; the code's is IEEE double arithmetic.              *)
(*                                                                         *)
(* Text.  A text is a bag of phrases of a small vocabulary taken from the  *)
(* scoring configuration, with its length in characters kept beside it.    *)
(***************************************************************************)
EXTENDS Integers, Sequences, FiniteSets, TLC

(***************************************************************************)
(* Bounds of the model.                                                    *)
(***************************************************************************)
\* the largest number of vocabulary phrases in one text
MaxWords == 2
\* the largest number of posts or profiles one listing or search returns
MaxFound == 2
\* the largest number of data rows of the worksheets of one kind together
MaxRows == 2
\* the largest number of pieces of a response of the language model
MaxTokens == 8
\* the largest number of lines of the activity log
MaxLog == 3
\* the largest value a metrics update sets a counter to
MaxCount == 2
\* the largest number of register_task and settings calls
MaxEvents == 3

\* the largest number of threads the control panel starts
MaxThreads == 2

\* the largest number of check boxes set when the pipeline is started
MaxSelected == 2

VARIABLES
    clock,      \* index into ClockDays: today's date (datetime.now())
    useAI,      \* LeadScorer.use_ai_analysis
    lead,       \* the lead dict the caller passed to the scorer, or NoLead
    scored,     \* what the last score_*_lead call returned and computed, or NoScore
    prevScored, \* what the call before it returned for the same lead, or NoScore
    site,       \* what Reddit or LinkedIn shows the scraper about to run, or NoSite
    leadsWs,    \* the worksheets Leads and RedditLeads, by platform
    scoresWs,   \* the worksheets LinkedInLeadScores and RedditLeadScores
    messagesWs, \* the worksheets LinkedInMessages and RedditMessages
    lastRun,    \* the arguments and the return value of the last operation
                \* on the worksheets, until its caller lets go of them
    generated,  \* the response of the language model and what the last
                \* generate_*_message call returned for it, or NoSplit
    logManager, \* LogManager: whether start_time is set, and metrics
    activityLog, \* the lines of logs/activity_metrics.jsonl, in order
    operations, \* the operations started, each with its date and the last
                \* values of its counters
    dailyMetrics, \* what the last get_daily_metrics call returned, or NoMetricsReport
    tasks,      \* TaskManager.tasks
    taskEvents, \* the register_task calls and kwargs updates made, in order
    taskCall,   \* the last run_task call: what it called and returned, or NoCall
    running_tasks, \* LeadGenerationGUI.running_tasks
    threads,    \* the threads the control panel has started, each with its
                \* position, its locals and the tasks it has started and ended
    uiQueue,    \* the callbacks passed to root.after that the main thread has
                \* not yet run, in order
    reports,    \* the completions _task_completed and _pipeline_completed
                \* have reported, in order
    notice      \* the notice the last click was answered with, or NoNotice

scoreVars == <<clock, useAI, lead, scored, prevScored>>

sheetVars == <<site, leadsWs, scoresWs, messagesWs, lastRun>>

splitVars == <<generated>>

logVars == <<logManager, activityLog, operations, dailyMetrics>>

taskVars == <<tasks, taskEvents, taskCall>>

guiVars == <<running_tasks, threads, uiQueue, reports, notice>>

vars ==
    <<clock, useAI, lead, scored, prevScored, site, leadsWs, scoresWs, messagesWs, lastRun,
      generated, logManager, activityLog, operations, dailyMetrics, tasks, taskEvents,
      taskCall, running_tasks, threads, uiQueue, reports, notice>>

(***************************************************************************)
(* Small helpers.                                                          *)
(***************************************************************************)
RECURSIVE SumOver(_, _)
\* the sum of f[x] over the finite set S
SumOver(S, f) ==
    IF S = {} THEN 0
    ELSE LET x == CHOOSE y \in S : TRUE
         IN f[x] + SumOver(S \ {x}, f)

(***************************************************************************)
(* The scoring configuration (LeadScorer.scoring_config).                  *)
(***************************************************************************)
\* the phrases a text of the model is made of
Vocab == {"desperate", "burnout", "hate my job", "happy", "?"}

\* pain_point_keywords: the weight, in tenths, of each keyword of the vocabulary
KeywordWeight10 ==
    [w \in {"desperate", "burnout", "hate my job"} |->
        CASE w = "desperate"   -> 30
          [] w = "burnout"     -> 20
          [] w = "hate my job" -> 15]

Tones == {"positive", "negative", "desperate", "reflective"}

\* tone_indicators: the weight of each tone, in tenths
ToneWeight10 ==
    [t \in Tones |->
        CASE t = "positive"   -> -5
          [] t = "negative"   -> 10
          [] t = "desperate"  -> 20
          [] t = "reflective" -> 7]

\* tone_indicators: how many matches of the tone's patterns one occurrence of
\* the phrase holds (r'hate' matches in "hate my job", r'desperate' in "desperate")
TonePatternHits(t, w) ==
    CASE t = "positive"  /\ w = "happy"       -> 1
      [] t = "negative"  /\ w = "hate my job" -> 1
      [] t = "desperate" /\ w = "desperate"   -> 1
      [] OTHER -> 0

\* question_patterns: matches of the question patterns in one occurrence of the phrase
QuestionPatternHits(w) == IF w = "?" THEN 1 ELSE 0

\* question_patterns.weight, in tenths
QuestionWeight10 == 15

\* platform_weights, in tenths
PlatformWeight10 == [p \in {"linkedin", "reddit"} |-> IF p = "linkedin" THEN 10 ELSE 12]

\* base_score = 5.0, in tenths
BaseScore10 == 50

(***************************************************************************)
(* Texts and leads.                                                        *)
(***************************************************************************)
\* the bags of at most MaxWords phrases
Texts ==
    {b \in [Vocab -> 0..MaxWords] : SumOver(Vocab, b) <= MaxWords}

\* lengths of the combined text, in characters: one in each band of content_length
TextLens == {50, 300, 700, 1000}

\* a date cell: absent or empty, unparsable, or a date (a day number)
Dates == {[k |-> "empty", day |-> 0], [k |-> "bad", day |-> 0], [k |-> "ymd", day |-> 0]}

\* today's date at the successive moments of the model, as day numbers
ClockDays == <<0, 7, 8, 31, 91>>

\* the recent_posts value of a LinkedIn lead as get_linkedin_leads leaves it: a
\* list of strings, a string, or what json.loads makes of a cell such as "2024"
\* or "null" (a number, None), which ' '.join rejects
PostsKinds == {"list", "str", "number"}

\* the score cell of a Reddit lead: absent or empty, a number as text, text that
\* is no number, or (from the scraper's own dict) a float infinity
ScoreCells == {"", "11", "51", "101", "abc", "inf"}

LinkedInLeads ==
    [platform : {"linkedin"}, text : Texts, len : TextLens, date : Dates,
     posts : PostsKinds, score : {""}]

RedditLeads ==
    [platform : {"reddit"}, text : Texts, len : TextLens, date : Dates,
     posts : {"list"}, score : ScoreCells]

NoLead == [platform |-> "none"]

NoScore == [error |-> "none"]

\* a float that is not a number (json.loads accepts the literal NaN)
NaN == -999999999

\* what one call of the external model comes to
AiOutcomes ==
    {[k |-> "score", v |-> x] : x \in {-20, 50, 150}}
        \cup {[k |-> "missing", v |-> 0], [k |-> "failed", v |-> 0], [k |-> "nan", v |-> 0]}

\* the outcome recorded when the external model is not called
NotCalled == [k |-> "off", v |-> 0]


(***************************************************************************)
(* The scorer's text analysis.                                             *)
(***************************************************************************)
\* _check_keyword_matches: the keywords present in the text (each once,
\* however often it occurs)
CheckKeywordMatches(text) == {w \in DOMAIN KeywordWeight10 : text[w] > 0}

\* keyword_score: the sum of the weights of the matched keywords
KeywordScore10(text) == SumOver(CheckKeywordMatches(text), KeywordWeight10)

\* _analyze_tone: per tone, the number of matches of its patterns (re.findall
\* counts every occurrence)
AnalyzeTone(text) ==
    [t \in Tones |-> SumOver(Vocab, [w \in Vocab |-> text[w] * TonePatternHits(t, w)])]

\* tone_score: weight times count, summed over the tones
ToneScore10(text) ==
    SumOver(Tones, [t \in Tones |-> ToneWeight10[t] * AnalyzeTone(text)[t]])

\* _check_questions: the number of matches of the question patterns
CheckQuestions(text) ==
    SumOver(Vocab, [w \in Vocab |-> text[w] * QuestionPatternHits(w)])

\* content_length.very_long.min_chars
VeryLongMinChars == 1000
\* content_length.long.max_chars
LongMaxChars == 1000
\* content_length.medium.max_chars
MediumMaxChars == 500

\* _calculate_content_length_multiplier, in tenths
ContentLengthMultiplier10(len) ==
    IF len = 0 THEN 10
    ELSE IF len >= VeryLongMinChars THEN 14
    ELSE IF len >= LongMaxChars THEN 12
    ELSE IF len >= MediumMaxChars THEN 10
    ELSE 8

\* activity_recency.recent.max_days, medium.max_days, old.max_days
RecentMaxDays == 7
MediumMaxDays == 30
OldMaxDays == 90

\* RecencyMultiplier10 with each band's last day left to the next band
\* (< for <=)
RecencyMultiplierStrict(date, now) ==
    IF date.k = "empty" THEN 10
    ELSE IF date.k = "bad" THEN 10
    ELSE LET days_diff == now - date.day
         IN IF days_diff < RecentMaxDays THEN 13
            ELSE IF days_diff < MediumMaxDays THEN 10
            ELSE IF days_diff < OldMaxDays THEN 7
            ELSE 5

\* _calculate_recency_multiplier, in tenths; now is today's day number
RecencyMultiplier10(date, now) ==
    IF date.k = "empty" THEN 10
    ELSE IF date.k = "bad" THEN 10
    ELSE LET days_diff == now - date.day
         IN IF days_diff <= RecentMaxDays THEN 13
            ELSE IF days_diff <= MediumMaxDays THEN 10
            ELSE IF days_diff <= OldMaxDays THEN 7
            ELSE 5

\* int(lead['score']): the value, or the exception raised
ParseInt(cell) ==
    CASE cell = "11"  -> [ok |-> TRUE, v |-> 11, exc |-> ""]
      [] cell = "51"  -> [ok |-> TRUE, v |-> 51, exc |-> ""]
      [] cell = "101" -> [ok |-> TRUE, v |-> 101, exc |-> ""]
      [] cell = "inf" -> [ok |-> FALSE, v |-> 0, exc |-> "OverflowError"]
      [] OTHER        -> [ok |-> FALSE, v |-> 0, exc |-> "ValueError"]

\* engagement_boost of score_reddit_lead, in tenths (ValueError and TypeError
\* are caught there and leave the boost at 0)
EngagementBoost10(cell) ==
    IF cell = "" THEN 0
    ELSE LET post_score == ParseInt(cell)
         IN IF ~post_score.ok THEN 0
            ELSE IF post_score.v > 100 THEN 10
            ELSE IF post_score.v > 50 THEN 7
            ELSE IF post_score.v > 10 THEN 3
            ELSE 0

\* whether the body of score_linkedin_lead / score_reddit_lead raises before
\* it has a score: ' '.join(recent_posts) on a value that is no list of
\* strings, int() overflowing on an infinite float (not among the caught)
ScoringRaises(l) ==
    \/ l.platform = "linkedin" /\ l.posts = "number"
    \/ l.platform = "reddit" /\ l.score # "" /\ ParseInt(l.score).exc = "OverflowError"

\* _analyze_with_ai: the ai_score, in tenths, that the call comes to: the
\* model's score, 5 when the answer holds no score, 0 when the call failed
AiScore10(ai) ==
    CASE ai.k = "score"   -> ai.v
      [] ai.k = "missing" -> 50
      [] ai.k = "nan"     -> NaN
      [] OTHER            -> 0

(***************************************************************************)
(* The blend, the clip, the bucket and the rounding.                       *)
(***************************************************************************)
\* BlendScore with the two weights exchanged
BlendScoreSwapped(ai_enabled, rule_e4, ai10) ==
    IF ~ai_enabled THEN 10 * rule_e4
    ELSE IF ai10 = NaN THEN NaN
    ELSE 6 * rule_e4 + 4 * (ai10 * 1000)

\* final_score before the clip, e5: 0.4 * rule + 0.6 * ai with AI analysis,
\* the rule-based score without
BlendScore(ai_enabled, rule_e4, ai10) ==
    IF ~ai_enabled THEN 10 * rule_e4
    ELSE IF ai10 = NaN THEN NaN
    ELSE 4 * rule_e4 + 6 * (ai10 * 1000)

\* Python's min(a, b) and max(a, b): a unless b compares below (above) it,
\* and no comparison with a NaN is true
PyMin(a, b) == IF b # NaN /\ b < a THEN b ELSE a
PyMax(a, b) == IF b # NaN /\ b > a THEN b ELSE a

\* ClipScore without the lower end
ClipScoreNoFloor(x) == PyMin(1000000, x)

\* final_score = max(1, min(10, final_score)), e5
ClipScore(x) == PyMax(100000, PyMin(1000000, x))

PriorityLabels == {"high_priority", "medium_priority", "low_priority", "very_low_priority"}

\* score_thresholds, e5
ScoreThreshold ==
    [p \in PriorityLabels |->
        CASE p = "high_priority"     -> 700000
          [] p = "medium_priority"   -> 400000
          [] p = "low_priority"      -> 200000
          [] p = "very_low_priority" -> 0]

\* PriorityLevel with the lowest threshold left out of the loop and another
\* default label
PriorityLevelNoFloor(final_e5) ==
    LET reached == {p \in PriorityLabels \ {"very_low_priority"} : final_e5 >= ScoreThreshold[p]}
    IN IF reached = {} THEN "unscored"
       ELSE CHOOSE p \in reached : \A q \in reached : ScoreThreshold[q] <= ScoreThreshold[p]

\* a priority loop over the score rounded to one decimal
PriorityLevelOfRounded(final_e5) ==
    LET rounded == ((final_e5 + 5000) \div 10000) * 10000
        reached == {p \in PriorityLabels : rounded >= ScoreThreshold[p]}
    IN IF reached = {} THEN "very_low_priority"
       ELSE CHOOSE p \in reached : \A q \in reached : ScoreThreshold[q] <= ScoreThreshold[p]

\* the priority loop: the label of the largest threshold the score reaches
PriorityLevel(final_e5) ==
    LET reached == {p \in PriorityLabels : final_e5 >= ScoreThreshold[p]}
    IN IF reached = {} THEN "very_low_priority"
       ELSE CHOOSE p \in reached : \A q \in reached : ScoreThreshold[q] <= ScoreThreshold[p]

\* round(x, n) of an exact decimal: x in units of 1/unit of the kept digit,
\* ties to the even neighbour
RoundHalfEven(x, unit) ==
    LET q == x \div unit
        r == x % unit
    IN IF 2 * r > unit THEN q + 1
       ELSE IF 2 * r < unit THEN q
       ELSE IF q % 2 = 0 THEN q ELSE q + 1

\* round(final_score, 1): tenths from e5
Round1(final_e5) == RoundHalfEven(final_e5, 10000)

\* round(rule_based_score, 2): hundredths from e4
Round2(rule_e4) == RoundHalfEven(rule_e4, 100)

(***************************************************************************)
(* score_linkedin_lead and score_reddit_lead.                              *)
(***************************************************************************)
\* the scored lead the except branch returns: the lead's own fields with
\* response_score 5.0, priority_level 'error' and the error text
ErrorScore(l, now) ==
    [error |-> "yes", input |-> l, now |-> now, ai_enabled |-> FALSE, ai |-> NotCalled,
     content_length_multiplier |-> 0,
     rule_based_score |-> 0, ai_score |-> 0, blended |-> 0, final_score |-> 0,
     response_score |-> 50, priority_level |-> "error"]

\* the tail both scoring functions share: the call of the external model when
\* AI analysis is on, the blend, the clip, the priority loop and the scored
\* copy of the lead (blended is final_score before the clip)
ScoredLead(l, now, ai_enabled, ai, rule_e4) ==
    LET ai_score == IF ai_enabled THEN AiScore10(ai) ELSE 0
        blended == BlendScore(ai_enabled, rule_e4, ai_score)
        final_score == ClipScore(blended)
    IN [error |-> "no", input |-> l, now |-> now, ai_enabled |-> ai_enabled,
        ai |-> IF ai_enabled THEN ai ELSE NotCalled,
        content_length_multiplier |-> ContentLengthMultiplier10(l.len),
        rule_based_score |-> rule_e4, ai_score |-> ai_score, blended |-> blended,
        final_score |-> final_score,
        response_score |-> Round1(final_score),
        priority_level |-> PriorityLevel(final_score)]

\* score_linkedin_lead: now is today's day number, ai the outcome of the call
\* of the external model (made only when AI analysis is on)
ScoreLinkedInLead(l, now, ai_enabled, ai) ==
    IF ScoringRaises(l) THEN ErrorScore(l, now)
    ELSE LET base == BaseScore10 + KeywordScore10(l.text) + ToneScore10(l.text)
                        + CheckQuestions(l.text) * QuestionWeight10
             rule_e4 == base * ContentLengthMultiplier10(l.len)
                            * RecencyMultiplier10(l.date, now) * PlatformWeight10["linkedin"]
         IN ScoredLead(l, now, ai_enabled, ai, rule_e4)

\* score_reddit_lead: the same with the engagement boost and Reddit's weight
ScoreRedditLead(l, now, ai_enabled, ai) ==
    IF ScoringRaises(l) THEN ErrorScore(l, now)
    ELSE LET base == BaseScore10 + KeywordScore10(l.text) + ToneScore10(l.text)
                        + CheckQuestions(l.text) * QuestionWeight10
                        + EngagementBoost10(l.score)
             rule_e4 == base * ContentLengthMultiplier10(l.len)
                            * RecencyMultiplier10(l.date, now) * PlatformWeight10["reddit"]
         IN ScoredLead(l, now, ai_enabled, ai, rule_e4)

\* the scoring function of the lead's platform
ScoreLead(l, now, ai_enabled, ai) ==
    IF l.platform = "linkedin" THEN ScoreLinkedInLead(l, now, ai_enabled, ai)
    ELSE ScoreRedditLead(l, now, ai_enabled, ai)

\* the caller's lead dict after the call: the score is added to a copy
\* (scored_lead = lead.copy(), {**lead, ...}), the dict passed in is not touched
InputAfterScore(l) == l

(***************************************************************************)
(* Scoring one lead: the state machine.                                    *)
(***************************************************************************)
Today == ClockDays[clock]

\* the outcomes the call of the external model can have in this state
AiChoices == IF useAI THEN AiOutcomes ELSE {NotCalled}

\* a day or more goes by
Tick ==
    /\ clock < Len(ClockDays)
    /\ clock' = clock + 1
    /\ UNCHANGED <<useAI, lead, scored, prevScored>>
    /\ UNCHANGED <<sheetVars, splitVars, logVars, taskVars, guiVars>>

\* a caller scores a LinkedIn lead
ScoreLinkedIn ==
    /\ scored = NoScore
    /\ \E l \in LinkedInLeads, ai \in AiChoices :
        /\ scored' = ScoreLinkedInLead(l, Today, useAI, ai)
        /\ lead' = InputAfterScore(l)
    /\ UNCHANGED <<clock, useAI, prevScored>>
    /\ UNCHANGED <<sheetVars, splitVars, logVars, taskVars, guiVars>>

\* a caller scores a Reddit lead
ScoreReddit ==
    /\ scored = NoScore
    /\ \E l \in RedditLeads, ai \in AiChoices :
        /\ scored' = ScoreRedditLead(l, Today, useAI, ai)
        /\ lead' = InputAfterScore(l)
    /\ UNCHANGED <<clock, useAI, prevScored>>
    /\ UNCHANGED <<sheetVars, splitVars, logVars, taskVars, guiVars>>

\* the same lead dict is scored a second time
Rescore ==
    /\ scored # NoScore
    /\ prevScored = NoScore
    /\ \E ai \in AiChoices :
        /\ scored' = ScoreLead(lead, Today, useAI, ai)
        /\ lead' = InputAfterScore(lead)
    /\ prevScored' = scored
    /\ UNCHANGED <<clock, useAI>>
    /\ UNCHANGED <<sheetVars, splitVars, logVars, taskVars, guiVars>>

\* the caller is done with the scored lead
DropLead ==
    /\ scored # NoScore
    /\ lead' = NoLead
    /\ scored' = NoScore
    /\ prevScored' = NoScore
    /\ UNCHANGED <<clock, useAI>>
    /\ UNCHANGED <<sheetVars, splitVars, logVars, taskVars, guiVars>>

(***************************************************************************)
(* Worksheets, sites and what the scrapers find.                           *)
(***************************************************************************)
Platforms == {"linkedin", "reddit"}

\* the source URLs of the model (profile_url, post_url)
Urls == {"u1", "u2"}

\* a worksheet: whether its header row is there, and its data rows in order
\* (get_all_values() is the header row followed by the data rows)
EmptyWs == [hdr |-> FALSE, rows |-> <<>>]

\* the number of rows of a worksheet, the header row included
RowCount(ws) == (IF ws.hdr THEN 1 ELSE 0) + Len(ws.rows)

\* all_values[1:]: the rows after the first
DataRows(ws) == IF ws.hdr \/ ws.rows = <<>> THEN ws.rows ELSE Tail(ws.rows)

\* a save that writes its rows over the worksheet's
AppendRowsOver(ws, rows) == [ws EXCEPT !.rows = rows]

\* for row in rows: worksheet.append_row(row)
AppendRows(ws, rows) == [ws EXCEPT !.rows = @ \o rows]

\* the sequences over S of length at most n
SeqsUpTo(S, n) == UNION {[1..k -> S] : k \in 0..n}

\* seq[:n] of Python: the first n elements, or all but the last -n for n < 0
PySlice(seq, n) ==
    LET k == IF n >= 0 THEN (IF n < Len(seq) THEN n ELSE Len(seq))
             ELSE (IF Len(seq) + n > 0 THEN Len(seq) + n ELSE 0)
    IN SubSeq(seq, 1, k)

\* the URLs of a sequence of leads or rows
UrlsOf(seq) == {seq[i].url : i \in DOMAIN seq}

NoSite == [platform |-> "none"]

\* the search queries of the model (RedditScraper.keywords)
Keywords == <<"kw1", "kw2">>

\* what Reddit returns: the matching posts of the subreddits, in order, and
\* for each keyword the posts its search returns; a post found by a listing
\* carries the listing's matched keywords, one found by a search the query
RedditSites ==
    [platform : {"reddit"},
     subreddit_leads : SeqsUpTo([url : Urls, tag : {"sub"}], MaxFound),
     keyword_leads : [1..Len(Keywords) -> SeqsUpTo(Urls, MaxFound)]]

\* the industry and role searches one run of the model makes (the code runs
\* through 6 industries times 6 roles)
NumSearches == 2

\* what LinkedIn returns: for each search the profiles it lists
LinkedInSites ==
    [platform : {"linkedin"},
     searches : [1..NumSearches -> SeqsUpTo([url : Urls, tag : {"li"}], MaxFound)]]

\* the sites of the pipeline runs: a post that a listing and a search both
\* find, a profile that two searches both find
TypicalSites ==
    {[platform |-> "reddit",
      subreddit_leads |-> <<[url |-> "u1", tag |-> "sub"]>>,
      keyword_leads |-> [k \in 1..Len(Keywords) |-> IF k = 1 THEN <<"u1", "u2">> ELSE <<>>]],
     [platform |-> "reddit",
      subreddit_leads |-> <<[url |-> "u2", tag |-> "sub"]>>,
      keyword_leads |-> [k \in 1..Len(Keywords) |-> <<>>]],
     [platform |-> "linkedin",
      searches |-> [i \in 1..NumSearches |-> <<[url |-> "u1", tag |-> "li"]>>]],
     [platform |-> "linkedin",
      searches |-> [i \in 1..NumSearches |->
                        IF i = 1 THEN <<[url |-> "u2", tag |-> "li"]>> ELSE <<>>]]}

NoRun == [op |-> "none"]

(***************************************************************************)
(* The Reddit scraper.                                                     *)
(***************************************************************************)
\* the posts the keyword searches return, tagged with their query, one
\* search after the other (all_leads.extend(keyword_leads))
RECURSIVE KeywordLeadsFrom(_, _)
KeywordLeadsFrom(keyword_leads, k) ==
    IF k > Len(Keywords) THEN <<>>
    ELSE [i \in DOMAIN keyword_leads[k] |-> [url |-> keyword_leads[k][i], tag |-> Keywords[k]]]
            \o KeywordLeadsFrom(keyword_leads, k + 1)

\* the seen_urls loop: the leads whose URL no earlier lead of the list has
RECURSIVE RemoveDuplicates(_)
RemoveDuplicates(leads) ==
    IF leads = <<>> THEN <<>>
    ELSE LET front == RemoveDuplicates(SubSeq(leads, 1, Len(leads) - 1))
             last == leads[Len(leads)]
         IN IF last.url \in UrlsOf(front) THEN front ELSE Append(front, last)

\* search_all_keywords
SearchAllKeywords(keyword_leads) == RemoveDuplicates(KeywordLeadsFrom(keyword_leads, 1))

\* a run that keeps every lead it found
UniqueLeadsKeepAll(subreddit_leads, keyword_leads) ==
    subreddit_leads \o SearchAllKeywords(keyword_leads)

\* a run that puts the search results before the subreddit results
UniqueLeadsSearchFirst(subreddit_leads, keyword_leads) ==
    RemoveDuplicates(SearchAllKeywords(keyword_leads) \o subreddit_leads)

\* run_full_scrape up to the save: unique_leads
UniqueLeads(subreddit_leads, keyword_leads) ==
    RemoveDuplicates(subreddit_leads \o SearchAllKeywords(keyword_leads))

\* the worksheet row of a scraped lead (of its cells the model keeps the URL)
LeadRow(l) == [url |-> l.url]

\* RedditScraper.save_leads_to_google_sheets
SaveRedditLeads(ws, leads, has_client) ==
    IF has_client /\ leads # <<>>
    THEN AppendRows(ws, [i \in DOMAIN leads |-> LeadRow(leads[i])])
    ELSE ws

(***************************************************************************)
(* The LinkedIn scraper.                                                   *)
(***************************************************************************)
\* leads[:5]: the profiles of one search that are visited
EnrichCap == 5

\* the enriched_leads of one search: the visits stop when the run has
\* max_leads leads
EnrichedLeads(found, have, max_leads) ==
    LET cand == PySlice(found, EnrichCap)
        want == max_leads - have
    IN IF want < Len(cand) THEN PySlice(cand, IF want < 1 THEN 1 ELSE want) ELSE cand

\* scrape_by_industry_and_role from search i on, all_leads being the leads so
\* far: every search's batch is saved and added (the loops end when the run
\* has max_leads leads)
RECURSIVE ScrapeFrom(_, _, _, _)
ScrapeFrom(searches, i, all_leads, max_leads) ==
    IF i > Len(searches) \/ Len(all_leads) >= max_leads THEN all_leads
    ELSE ScrapeFrom(searches, i + 1,
                    all_leads \o EnrichedLeads(searches[i], Len(all_leads), max_leads),
                    max_leads)

\* scrape_by_industry_and_role: all_leads (nothing when the login fails)
ScrapeByIndustryAndRole(searches, max_leads, login_ok) ==
    IF ~login_ok THEN <<>> ELSE ScrapeFrom(searches, 1, <<>>, max_leads)

\* LinkedInScraper.save_leads_to_google_sheets, over the batches of a run
SaveLinkedInLeads(ws, leads) ==
    IF leads # <<>>
    THEN AppendRows(ws, [i \in DOMAIN leads |-> LeadRow(leads[i])])
    ELSE ws

\* the max_leads values of the model (the settings tab takes any integer)
MaxLeadsChoices == {-1, 0, 1, 50}

(***************************************************************************)
(* The scorer over the worksheets.                                         *)
(***************************************************************************)
\* a text that holds no phrase of the vocabulary
PlainText == [w \in Vocab |-> 0]

\* the recent_posts cell of a profile as json.loads reads it back: the one
\* recent post of profile u2 reads "2024", which parses as a number
ProfilePosts(url) == IF url = "u2" THEN "number" ELSE "list"

\* get_linkedin_leads, get_reddit_leads: the lead dict of a data row
LeadOfRow(p, row) ==
    [platform |-> p, text |-> PlainText, len |-> 50,
     date |-> [k |-> "empty", day |-> 0],
     posts |-> IF p = "linkedin" THEN ProfilePosts(row.url) ELSE "list",
     score |-> "", url |-> row.url]

\* the leads of a leads worksheet, in worksheet order
GetLeads(p, ws) == [i \in DOMAIN DataRows(ws) |-> LeadOfRow(p, DataRows(ws)[i])]

\* the set of the URLs in column 4 of a scores or messages worksheet, as a
\* run reads it when it starts (empty when the worksheet cannot be read or
\* holds its header only)
ExistingUrls(ws) == IF RowCount(ws) > 1 THEN UrlsOf(DataRows(ws)) ELSE {}

\* a run that cuts all the leads to max_leads, scored or not
LeadsToScoreUnfiltered(all_leads, existing_scores, max_leads) ==
    PySlice(all_leads, max_leads)

\* leads_to_score: the leads whose URL is not among the existing, cut to
\* max_leads
LeadsToScore(all_leads, existing_scores, max_leads) ==
    PySlice(SelectSeq(all_leads, LAMBDA l : l.url \notin existing_scores), max_leads)

\* the scored lead of the model: the URL of the lead and what the scoring
\* function returned for it
ScoredOf(l, now, ai_enabled) ==
    LET r == ScoreLead([f \in DOMAIN l \ {"url"} |-> l[f]], now, ai_enabled, NotCalled)
    IN [url |-> l.url, response_score |-> r.response_score,
        priority_level |-> r.priority_level]

\* save_linkedin_scores, save_reddit_scores: the row of a scored lead
ScoreRow(sl) ==
    [url |-> sl.url, response_score |-> sl.response_score,
     priority_level |-> sl.priority_level, manual_adjustment |-> "",
     final_score |-> sl.response_score, notes |-> ""]

\* the worksheet opened for a save: made, with its header row, when it is
\* not there
OpenOrCreate(ws) == IF ws.hdr THEN ws ELSE [hdr |-> TRUE, rows |-> ws.rows]

\* save_linkedin_scores, save_reddit_scores
SaveScores(ws, scored_leads) ==
    AppendRows(OpenOrCreate(ws), [i \in DOMAIN scored_leads |-> ScoreRow(scored_leads[i])])

\* process_linkedin_leads, process_reddit_leads of the scorer: the scored
\* leads returned and the scores worksheet afterwards
ProcessLeads(p, leads_ws, scores_ws, max_leads, now, ai_enabled) ==
    LET all_leads == GetLeads(p, leads_ws)
        existing_scores == ExistingUrls(scores_ws)
        leads_to_score == LeadsToScore(all_leads, existing_scores, max_leads)
        scored_leads == [i \in DOMAIN leads_to_score |->
                            ScoredOf(leads_to_score[i], now, ai_enabled)]
    IN IF all_leads = <<>> THEN [returned |-> <<>>, ws |-> scores_ws]
       ELSE [returned |-> scored_leads,
             ws |-> IF scored_leads # <<>> THEN SaveScores(scores_ws, scored_leads)
                    ELSE scores_ws]

\* the number of the scored leads with a priority level
PriorityCount(scored_leads, level) ==
    Cardinality({i \in DOMAIN scored_leads : scored_leads[i].priority_level = level})

\* process_all_leads: the results summary and the scores worksheets afterwards
ProcessAllLeads(leads_wss, scores_wss, max_linkedin_leads, max_reddit_leads, now, ai_enabled) ==
    LET li == ProcessLeads("linkedin", leads_wss["linkedin"], scores_wss["linkedin"],
                           max_linkedin_leads, now, ai_enabled)
        rd == ProcessLeads("reddit", leads_wss["reddit"], scores_wss["reddit"],
                           max_reddit_leads, now, ai_enabled)
        all_leads == li.returned \o rd.returned
    IN [results |->
            [linkedin_leads_scored |-> Len(li.returned),
             reddit_leads_scored |-> Len(rd.returned),
             high_priority_leads |-> PriorityCount(all_leads, "high_priority"),
             medium_priority_leads |-> PriorityCount(all_leads, "medium_priority"),
             low_priority_leads |-> PriorityCount(all_leads, "low_priority"),
             very_low_priority_leads |-> PriorityCount(all_leads, "very_low_priority")],
        wss |-> [p \in Platforms |-> IF p = "linkedin" THEN li.ws ELSE rd.ws]]

(***************************************************************************)
(* update_manual_scores.                                                   *)
(***************************************************************************)
ManualKeys == {"manual_adjustment", "final_score", "notes"}

\* the update dicts of the model: a URL (or none) and the keys the dict holds
ManualUpdates ==
    [url : Urls \cup {""}, keys : {{}, {"notes"}, ManualKeys}]

\* the largest number of update dicts of one call
MaxUpdates == 1

\* the cells of a row after the update_cell calls of one update
UpdatedRow(row, update) ==
    [row EXCEPT
        !.manual_adjustment = IF "manual_adjustment" \in update.keys THEN "+1.0" ELSE @,
        !.final_score = IF "final_score" \in update.keys THEN 90 ELSE @,
        !.notes = IF "notes" \in update.keys THEN "call back" ELSE @]

\* one update applied to the worksheet: the first data row with its URL is
\* rewritten in place (data_rows is the worksheet as read when the call began)
ApplyUpdate(ws, data_rows, update) ==
    LET hits == {i \in DOMAIN data_rows : data_rows[i].url = update.url}
        skip == IF ws.hdr THEN 0 ELSE 1
    IN IF update.url = "" \/ hits = {} THEN ws
       ELSE LET i == CHOOSE j \in hits : \A k \in hits : j <= k
            IN [ws EXCEPT !.rows[i + skip] = UpdatedRow(@, update)]

RECURSIVE ApplyUpdates(_, _, _)
ApplyUpdates(ws, data_rows, updated_scores) ==
    IF updated_scores = <<>> THEN ws
    ELSE ApplyUpdates(ApplyUpdate(ws, data_rows, Head(updated_scores)), data_rows,
                      Tail(updated_scores))

\* update_manual_scores: what it returns and the scores worksheet afterwards
UpdateManualScores(ws, updated_scores) ==
    IF updated_scores = <<>> \/ RowCount(ws) <= 1 THEN [returned |-> FALSE, ws |-> ws]
    ELSE [returned |-> TRUE, ws |-> ApplyUpdates(ws, DataRows(ws), updated_scores)]

(***************************************************************************)
(* The message generator over the worksheets.                              *)
(***************************************************************************)
\* the message generate_*_message returns when the call of the model raised
ErrorMessage == "Error generating message."

\* a loop in which a lead that is skipped counts as processed
RECURSIVE GenerateFromCounting(_, _, _, _, _, _)
GenerateFromCounting(leads, i, count, max_leads, skipped, api_fails) ==
    IF i > Len(leads) \/ count >= max_leads THEN <<>>
    ELSE IF leads[i].url \in skipped
         THEN GenerateFromCounting(leads, i + 1, count + 1, max_leads, skipped, api_fails)
         ELSE <<[url |-> leads[i].url,
                 generated_message |-> IF (count + 1) \in api_fails THEN ErrorMessage
                                       ELSE "message"]>>
              \o GenerateFromCounting(leads, i + 1, count + 1, max_leads, skipped, api_fails)

\* the loop of process_*_leads from lead i on: count leads have been
\* processed, the leads numbered in api_fails get the error message
RECURSIVE GenerateFrom(_, _, _, _, _, _)
GenerateFrom(leads, i, count, max_leads, skipped, api_fails) ==
    IF i > Len(leads) \/ count >= max_leads THEN <<>>
    ELSE IF leads[i].url \in skipped
         THEN GenerateFrom(leads, i + 1, count, max_leads, skipped, api_fails)
         ELSE <<[url |-> leads[i].url,
                 generated_message |-> IF (count + 1) \in api_fails THEN ErrorMessage
                                       ELSE "message"]>>
              \o GenerateFrom(leads, i + 1, count + 1, max_leads, skipped, api_fails)

\* a message row that is written as sent
MessageRowSent(lm) ==
    [url |-> lm.url, generated_message |-> lm.generated_message,
     status |-> "Sent", response |-> "", date_sent |-> "today"]

\* save_linkedin_messages, save_reddit_messages: the row of a lead with its message
MessageRow(lm) ==
    [url |-> lm.url, generated_message |-> lm.generated_message,
     status |-> "Pending Review", response |-> "", date_sent |-> ""]

\* save_linkedin_messages, save_reddit_messages
SaveMessages(ws, leads_with_messages) ==
    AppendRows(OpenOrCreate(ws),
               [i \in DOMAIN leads_with_messages |-> MessageRow(leads_with_messages[i])])

\* process_linkedin_leads, process_reddit_leads of the message generator
ProcessMessages(p, leads_ws, messages_ws, max_leads, skip_existing, api_fails) ==
    LET leads == GetLeads(p, leads_ws)
        existing_messages == IF skip_existing THEN ExistingUrls(messages_ws) ELSE {}
        processed_leads == GenerateFrom(leads, 1, 0, max_leads, existing_messages, api_fails)
    IN IF leads = <<>> THEN [returned |-> <<>>, ws |-> messages_ws]
       ELSE [returned |-> processed_leads,
             ws |-> IF processed_leads # <<>> THEN SaveMessages(messages_ws, processed_leads)
                    ELSE messages_ws]

(***************************************************************************)
(* The operations on the worksheets.                                       *)
(***************************************************************************)
\* the data rows of the worksheets of one kind, both platforms together
TotalRows(wss) == SumOver(Platforms, [p \in Platforms |-> Len(wss[p].rows)])

\* no operation is in progress and no result is held
Idle == site = NoSite /\ lastRun = NoRun

\* Reddit or LinkedIn shows some posts or profiles to the scraper about to run
SiteShows ==
    /\ Idle
    /\ site' \in RedditSites \cup LinkedInSites
    /\ UNCHANGED <<leadsWs, scoresWs, messagesWs, lastRun>>
    /\ UNCHANGED <<scoreVars, splitVars, logVars, taskVars, guiVars>>

\* the same for the runs of the whole pipeline
SiteShowsTypical ==
    /\ Idle
    /\ site' \in TypicalSites
    /\ UNCHANGED <<leadsWs, scoresWs, messagesWs, lastRun>>
    /\ UNCHANGED <<scoreVars, splitVars, logVars, taskVars, guiVars>>

\* run_reddit_scraper
RunRedditScraper ==
    /\ site.platform = "reddit"
    /\ \E has_client \in BOOLEAN :
        LET unique_leads == UniqueLeads(site.subreddit_leads, site.keyword_leads)
            ws == SaveRedditLeads(leadsWs["reddit"], unique_leads, has_client)
        IN /\ TotalRows([leadsWs EXCEPT !["reddit"] = ws]) <= MaxRows
           /\ leadsWs' = [leadsWs EXCEPT !["reddit"] = ws]
           /\ lastRun' = [op |-> "reddit_scrape", subreddit_leads |-> site.subreddit_leads,
                          keyword_leads |-> site.keyword_leads, saved |-> has_client,
                          rows_before |-> Len(leadsWs["reddit"].rows),
                          returned |-> unique_leads]
    /\ site' = NoSite
    /\ UNCHANGED <<scoresWs, messagesWs>>
    /\ UNCHANGED <<scoreVars, splitVars, logVars, taskVars, guiVars>>

\* run_linkedin_scraper
RunLinkedInScraper ==
    /\ site.platform = "linkedin"
    /\ \E max_leads \in MaxLeadsChoices, login_ok \in BOOLEAN :
        LET all_leads == ScrapeByIndustryAndRole(site.searches, max_leads, login_ok)
            ws == SaveLinkedInLeads(leadsWs["linkedin"], all_leads)
        IN /\ TotalRows([leadsWs EXCEPT !["linkedin"] = ws]) <= MaxRows
           /\ leadsWs' = [leadsWs EXCEPT !["linkedin"] = ws]
           /\ lastRun' = [op |-> "linkedin_scrape", searches |-> site.searches,
                          max_leads |-> max_leads,
                          rows_before |-> Len(leadsWs["linkedin"].rows),
                          returned |-> all_leads]
    /\ site' = NoSite
    /\ UNCHANGED <<scoresWs, messagesWs>>
    /\ UNCHANGED <<scoreVars, splitVars, logVars, taskVars, guiVars>>

\* LeadScorer.process_linkedin_leads
ScoreLinkedInLeads ==
    /\ Idle
    /\ \E max_leads \in MaxLeadsChoices :
        LET r == ProcessLeads("linkedin", leadsWs["linkedin"], scoresWs["linkedin"],
                              max_leads, Today, useAI)
        IN /\ scoresWs' = [scoresWs EXCEPT !["linkedin"] = r.ws]
           /\ lastRun' = [op |-> "score", platform |-> "linkedin", max_leads |-> max_leads,
                          existing |-> ExistingUrls(scoresWs["linkedin"]),
                          rows_before |-> Len(scoresWs["linkedin"].rows),
                          returned |-> r.returned]
    /\ UNCHANGED <<site, leadsWs, messagesWs>>
    /\ UNCHANGED <<scoreVars, splitVars, logVars, taskVars, guiVars>>

\* LeadScorer.process_reddit_leads
ScoreRedditLeads ==
    /\ Idle
    /\ \E max_leads \in MaxLeadsChoices :
        LET r == ProcessLeads("reddit", leadsWs["reddit"], scoresWs["reddit"],
                              max_leads, Today, useAI)
        IN /\ scoresWs' = [scoresWs EXCEPT !["reddit"] = r.ws]
           /\ lastRun' = [op |-> "score", platform |-> "reddit", max_leads |-> max_leads,
                          existing |-> ExistingUrls(scoresWs["reddit"]),
                          rows_before |-> Len(scoresWs["reddit"].rows),
                          returned |-> r.returned]
    /\ UNCHANGED <<site, leadsWs, messagesWs>>
    /\ UNCHANGED <<scoreVars, splitVars, logVars, taskVars, guiVars>>

\* LeadScorer.process_all_leads
ScoreAllLeads ==
    /\ Idle
    /\ \E max_linkedin_leads \in MaxLeadsChoices, max_reddit_leads \in MaxLeadsChoices :
        LET r == ProcessAllLeads(leadsWs, scoresWs, max_linkedin_leads, max_reddit_leads,
                                 Today, useAI)
        IN /\ scoresWs' = r.wss
           /\ lastRun' = [op |-> "score_all", returned |-> r.results]
    /\ UNCHANGED <<site, leadsWs, messagesWs>>
    /\ UNCHANGED <<scoreVars, splitVars, logVars, taskVars, guiVars>>

\* LeadScorer.update_manual_scores
ManualScoreUpdate ==
    /\ Idle
    /\ \E p \in Platforms, updated_scores \in SeqsUpTo(ManualUpdates, MaxUpdates) :
        LET r == UpdateManualScores(scoresWs[p], updated_scores)
        IN /\ scoresWs' = [scoresWs EXCEPT ![p] = r.ws]
           /\ lastRun' = [op |-> "manual", platform |-> p, returned |-> r.returned]
    /\ UNCHANGED <<site, leadsWs, messagesWs>>
    /\ UNCHANGED <<scoreVars, splitVars, logVars, taskVars, guiVars>>

\* MessageGenerator.process_linkedin_leads
GenerateLinkedInMessages ==
    /\ Idle
    /\ \E max_leads \in MaxLeadsChoices, skip_existing \in BOOLEAN,
          api_fails \in SUBSET (1..MaxRows) :
        LET r == ProcessMessages("linkedin", leadsWs["linkedin"], messagesWs["linkedin"],
                                 max_leads, skip_existing, api_fails)
        IN /\ TotalRows([messagesWs EXCEPT !["linkedin"] = r.ws]) <= MaxRows
           /\ messagesWs' = [messagesWs EXCEPT !["linkedin"] = r.ws]
           /\ lastRun' = [op |-> "messages", platform |-> "linkedin",
                          max_leads |-> max_leads, skip_existing |-> skip_existing,
                          existing |-> ExistingUrls(messagesWs["linkedin"]),
                          rows_before |-> Len(messagesWs["linkedin"].rows),
                          returned |-> r.returned]
    /\ UNCHANGED <<site, leadsWs, scoresWs>>
    /\ UNCHANGED <<scoreVars, splitVars, logVars, taskVars, guiVars>>

\* MessageGenerator.process_reddit_leads
GenerateRedditMessages ==
    /\ Idle
    /\ \E max_leads \in MaxLeadsChoices, skip_existing \in BOOLEAN,
          api_fails \in SUBSET (1..MaxRows) :
        LET r == ProcessMessages("reddit", leadsWs["reddit"], messagesWs["reddit"],
                                 max_leads, skip_existing, api_fails)
        IN /\ TotalRows([messagesWs EXCEPT !["reddit"] = r.ws]) <= MaxRows
           /\ messagesWs' = [messagesWs EXCEPT !["reddit"] = r.ws]
           /\ lastRun' = [op |-> "messages", platform |-> "reddit",
                          max_leads |-> max_leads, skip_existing |-> skip_existing,
                          existing |-> ExistingUrls(messagesWs["reddit"]),
                          rows_before |-> Len(messagesWs["reddit"].rows),
                          returned |-> r.returned]
    /\ UNCHANGED <<site, leadsWs, scoresWs>>
    /\ UNCHANGED <<scoreVars, splitVars, logVars, taskVars, guiVars>>

\* run_email_reporter: the worksheets are read, the lead counts of
\* get_engagement_metrics among the figures, and the mail is sent or not
RunEmailReporter ==
    /\ Idle
    /\ \E sent \in BOOLEAN :
        LET linkedin_leads == IF RowCount(leadsWs["linkedin"]) - 1 > 0
                              THEN RowCount(leadsWs["linkedin"]) - 1 ELSE 0
            reddit_leads == IF RowCount(leadsWs["reddit"]) - 1 > 0
                            THEN RowCount(leadsWs["reddit"]) - 1 ELSE 0
        IN lastRun' = [op |-> "report", linkedin_leads |-> linkedin_leads,
                       reddit_leads |-> reddit_leads,
                       total_leads |-> linkedin_leads + reddit_leads, returned |-> sent]
    /\ UNCHANGED <<site, leadsWs, scoresWs, messagesWs>>
    /\ UNCHANGED <<scoreVars, splitVars, logVars, taskVars, guiVars>>

\* the caller of the last operation lets go of what it returned
ReturnHandled ==
    /\ lastRun # NoRun
    /\ lastRun' = NoRun
    /\ UNCHANGED <<site, leadsWs, scoresWs, messagesWs>>
    /\ UNCHANGED <<scoreVars, splitVars, logVars, taskVars, guiVars>>

(***************************************************************************)
(* generate_linkedin_message, generate_reddit_message: the split of the    *)
(* response into message and reasoning.                                    *)
(***************************************************************************)
\* the pieces a response is made of: "m" a stretch of text without line
\* break, heading or outer blanks, "nl" a line break, "R" the heading
\* "Reasoning:" (like "Why this works:", looked for by both tests of the
\* code), "S" the heading "Strategy:" (like "Effectiveness:", a split point
\* only)
Tokens == {"m", "nl", "R", "S"}

\* the responses of the model: full_response
Responses == SeqsUpTo(Tokens, MaxTokens)

\* the call of the language model raised
Failed == <<"raise">>

NoSplit == [platform |-> "none"]

\* the reasoning returned when no split point is found
NoReasoning == [heading |-> "", rest |-> <<"No explicit reasoning provided.">>]

\* str.strip(): without the line breaks at its two ends
RECURSIVE Strip(_)
Strip(text) ==
    IF text = <<>> THEN <<>>
    ELSE IF Head(text) = "nl" THEN Strip(Tail(text))
    ELSE IF text[Len(text)] = "nl" THEN Strip(SubSeq(text, 1, Len(text) - 1))
    ELSE text

\* the places where sep occurs in text
Occurrences(text, sep) ==
    {i \in 1..(Len(text) - Len(sep) + 1) : SubSeq(text, i, i + Len(sep) - 1) = sep}

\* sep in text
Contains(text, sep) == Occurrences(text, sep) # {}

\* text.split(sep, 1)
SplitOnce(text, sep) ==
    IF ~Contains(text, sep) THEN <<text>>
    ELSE LET i == CHOOSE j \in Occurrences(text, sep) : \A k \in Occurrences(text, sep) : j <= k
         IN <<SubSeq(text, 1, i - 1), SubSeq(text, i + Len(sep), Len(text))>>

\* split_points, in the order they are tried, each a line break and a heading
SplitPoints == <<"R", "S">>

\* the for loop over split_points from the n-th on
RECURSIVE SplitAtPoint(_, _)
SplitAtPoint(full_response, n) ==
    IF n > Len(SplitPoints) THEN [message |-> full_response, reasoning |-> NoReasoning]
    ELSE IF Contains(full_response, <<"nl", SplitPoints[n]>>)
         THEN LET parts == SplitOnce(full_response, <<"nl", SplitPoints[n]>>)
              IN [message |-> Strip(parts[1]),
                  reasoning |-> [heading |-> SplitPoints[n], rest |-> Strip(parts[2])]]
         ELSE SplitAtPoint(full_response, n + 1)

\* the message and the reasoning generate_*_message returns for a response
SplitResponse(full_response) ==
    LET parts == SplitOnce(full_response, <<"nl", "nl">>)
    IN IF Len(parts) = 2 /\ Contains(parts[2], <<"R">>)
       THEN [message |-> Strip(parts[1]),
             reasoning |-> [heading |-> "", rest |-> Strip(parts[2])]]
       ELSE SplitAtPoint(full_response, 1)

\* what generate_*_message returns: the split of the response, or the error
\* pair when the call raised
GenerateMessage(p, response) ==
    IF response = Failed
    THEN [platform |-> p, response |-> response, message |-> <<ErrorMessage>>,
          reasoning |-> [heading |-> "", rest |-> <<"Error: ">>]]
    ELSE [platform |-> p, response |-> response,
          message |-> SplitResponse(response).message,
          reasoning |-> SplitResponse(response).reasoning]

\* generate_linkedin_message
GenerateLinkedInMessage ==
    /\ generated = NoSplit
    /\ \E response \in Responses \cup {Failed} :
          generated' = GenerateMessage("linkedin", response)
    /\ UNCHANGED <<scoreVars, sheetVars, logVars, taskVars, guiVars>>

\* generate_reddit_message
GenerateRedditMessage ==
    /\ generated = NoSplit
    /\ \E response \in Responses \cup {Failed} :
          generated' = GenerateMessage("reddit", response)
    /\ UNCHANGED <<scoreVars, sheetVars, logVars, taskVars, guiVars>>

\* the caller lets go of the message
MessageHandled ==
    /\ generated # NoSplit
    /\ generated' = NoSplit
    /\ UNCHANGED <<scoreVars, sheetVars, logVars, taskVars, guiVars>>

(***************************************************************************)
(* LogManager and MetricsTracker (logging-system.py).                      *)
(***************************************************************************)
\* the counters of the metrics that get_daily_metrics adds up
Counters == {"leads_scraped", "messages_generated", "emails_sent", "leads_scored"}

\* LogManager.metrics before the first start_operation: {}
NoMetrics == [status |-> "none"]

NoMetricsReport == [date |-> -1]

\* the metrics_update dicts of the model: the counters it holds, all set to
\* one value (a dict may hold other keys too: they go to details)
MetricsUpdates ==
    [keys : {{}, Counters} \cup {{c} : c \in Counters}, value : 1..MaxCount]

\* self.metrics as start_operation sets it
StartedMetrics(now) ==
    [status |-> "started", start_time |-> now, counters |-> [c \in Counters |-> 0]]

\* the for loop of update_metrics over the counters of the update
UpdatedMetrics(metrics, update) ==
    [metrics EXCEPT !.counters =
        [c \in Counters |-> IF c \in update.keys THEN update.value ELSE @[c]]]

\* the sum of a sequence of numbers
RECURSIVE SumSeq(_)
SumSeq(ints) ==
    IF ints = <<>> THEN 0 ELSE Head(ints) + SumSeq(Tail(ints))

\* get_daily_metrics: the loop over the lines of the activity log
GetDailyMetrics(log, date_str) ==
    LET lines == SelectSeq(log, LAMBDA data : data.start_time = date_str)
    IN [date |-> date_str,
        total_operations |-> Len(lines),
        successful_operations |->
            Len(SelectSeq(lines, LAMBDA data : data.status = "completed")),
        failed_operations |-> Len(SelectSeq(lines, LAMBDA data : data.status = "failed")),
        counters |-> [c \in Counters |->
                        SumSeq([i \in DOMAIN lines |-> lines[i].counters[c]])]]

\* LogManager.start_operation
StartOperation ==
    /\ Len(activityLog) < MaxLog
    /\ logManager' = [start_time |-> TRUE, metrics |-> StartedMetrics(Today)]
    /\ activityLog' = Append(activityLog, StartedMetrics(Today))
    /\ operations' = Append(operations, [date |-> Today, counters |-> [c \in Counters |-> 0]])
    /\ UNCHANGED dailyMetrics
    /\ UNCHANGED <<scoreVars, sheetVars, splitVars, taskVars, guiVars>>

\* LogManager.update_metrics (without metrics it warns and returns)
UpdateMetrics ==
    /\ Len(activityLog) < MaxLog
    /\ logManager.metrics # NoMetrics
    /\ \E metrics_update \in MetricsUpdates :
        LET metrics == UpdatedMetrics(logManager.metrics, metrics_update)
        IN /\ logManager' = [logManager EXCEPT !.metrics = metrics]
           /\ activityLog' = Append(activityLog, metrics)
           /\ operations' = [operations EXCEPT ![Len(operations)].counters = metrics.counters]
    /\ UNCHANGED dailyMetrics
    /\ UNCHANGED <<scoreVars, sheetVars, splitVars, taskVars, guiVars>>

\* LogManager.end_operation (without start_time it warns and returns)
EndOperation ==
    /\ Len(activityLog) < MaxLog
    /\ logManager.start_time
    /\ \E success \in BOOLEAN :
        LET metrics == [logManager.metrics EXCEPT
                            !.status = IF success THEN "completed" ELSE "failed"]
        IN /\ logManager' = [start_time |-> FALSE, metrics |-> metrics]
           /\ activityLog' = Append(activityLog, metrics)
    /\ UNCHANGED <<operations, dailyMetrics>>
    /\ UNCHANGED <<scoreVars, sheetVars, splitVars, taskVars, guiVars>>

\* MetricsTracker.get_daily_metrics, for today or a date given
DailyMetricsRead ==
    /\ dailyMetrics = NoMetricsReport
    /\ \E i \in 1..clock : dailyMetrics' = GetDailyMetrics(activityLog, ClockDays[i])
    /\ UNCHANGED <<logManager, activityLog, operations>>
    /\ UNCHANGED <<scoreVars, sheetVars, splitVars, taskVars, guiVars>>

\* the caller lets go of the metrics
DailyMetricsHandled ==
    /\ dailyMetrics # NoMetricsReport
    /\ dailyMetrics' = NoMetricsReport
    /\ UNCHANGED <<logManager, activityLog, operations>>
    /\ UNCHANGED <<scoreVars, sheetVars, splitVars, taskVars, guiVars>>

\* a fresh LogManager, an empty activity log
LogInit ==
    /\ logManager = [start_time |-> FALSE, metrics |-> NoMetrics]
    /\ activityLog = <<>>
    /\ operations = <<>>
    /\ dailyMetrics = NoMetricsReport

(***************************************************************************)
(* TaskManager (lead_gen_gui.py).                                          *)
(***************************************************************************)
\* the task names of the model, in the order update_task_settings goes
\* through them, and a name nobody registers
TaskNames == <<"run_lead_scorer", "run_email_reporter">>

UnknownTask == "run_unknown"

\* the functions of the model
Funcs == {"f", "g"}

\* the keyword arguments of the model: none, max_leads, or max_leads with a
\* key the settings leave alone
KwargsChoices ==
    UNION {[keys -> {0, 50}] : keys \in SUBSET {"max_leads"}}
        \cup {[k \in {"max_leads", "headless"} |-> IF k = "headless" THEN 1 ELSE 50]}

\* the dicts update_task_settings passes to kwargs.update for one task
SettingsChoices == [{"max_leads"} -> {0, 50}]

NoCall == [name |-> "none"]

\* dict.update: the keys of other set or added
DictUpdate(dict, other) ==
    [k \in DOMAIN dict \cup DOMAIN other |-> IF k \in DOMAIN other THEN other[k] ELSE dict[k]]

\* a task manager whose register_task keeps an entry that is there
RegisteredKeepFirst(registry, name, func, kwargs) ==
    IF name \in DOMAIN registry THEN registry
    ELSE [n \in DOMAIN registry \cup {name} |->
            IF n = name THEN [func |-> func, kwargs |-> kwargs] ELSE registry[n]]

\* register_task: self.tasks[name] = {'func': func, 'kwargs': kwargs}
Registered(registry, name, func, kwargs) ==
    [n \in DOMAIN registry \cup {name} |->
        IF n = name THEN [func |-> func, kwargs |-> kwargs] ELSE registry[n]]

\* update_task_settings from the i-th task on: the kwargs.update statements in
\* order, the rest skipped when a task is not registered (KeyError)
RECURSIVE SettingsApplied(_, _, _)
SettingsApplied(registry, settings, i) ==
    IF i > Len(TaskNames) \/ TaskNames[i] \notin DOMAIN registry THEN registry
    ELSE SettingsApplied(
            [registry EXCEPT ![TaskNames[i]].kwargs = DictUpdate(@, settings[i])],
            settings, i + 1)

\* what the function func returns when called with kwargs
ResultOf(func, kwargs) == [by |-> func, with |-> kwargs]

\* run_task: the exception it raises, the call it makes and what it returns
\* (the function called returns or raises)
RunTask(registry, name, func_raises) ==
    IF name \notin DOMAIN registry
    THEN [name |-> name, raised |-> "ValueError", called |-> "none"]
    ELSE LET task == registry[name]
         IN IF func_raises
            THEN [name |-> name, raised |-> "Exception", called |-> task.func,
                  kwargs |-> task.kwargs]
            ELSE [name |-> name, raised |-> "none", called |-> task.func,
                  kwargs |-> task.kwargs, returned |-> ResultOf(task.func, task.kwargs)]

\* TaskManager.register_task
RegisterTask ==
    /\ Len(taskEvents) < MaxEvents
    /\ \E i \in DOMAIN TaskNames, func \in Funcs, kwargs \in KwargsChoices :
        /\ tasks' = Registered(tasks, TaskNames[i], func, kwargs)
        /\ taskEvents' = Append(taskEvents, [op |-> "register", name |-> TaskNames[i],
                                             func |-> func, kwargs |-> kwargs])
    /\ UNCHANGED taskCall
    /\ UNCHANGED <<scoreVars, sheetVars, splitVars, logVars, guiVars>>

\* LeadGenerationGUI.update_task_settings: the kwargs of the tasks
UpdateTaskSettings ==
    /\ Len(taskEvents) < MaxEvents
    /\ \E settings \in [DOMAIN TaskNames -> SettingsChoices] :
        /\ tasks' = SettingsApplied(tasks, settings, 1)
        /\ taskEvents' = Append(taskEvents, [op |-> "settings", settings |-> settings])
    /\ UNCHANGED taskCall
    /\ UNCHANGED <<scoreVars, sheetVars, splitVars, logVars, guiVars>>

\* TaskManager.run_task, with the number of calls made on the task manager
\* before it
RunTaskCalled ==
    /\ taskCall = NoCall
    /\ \E name \in {TaskNames[i] : i \in DOMAIN TaskNames} \cup {UnknownTask},
          func_raises \in BOOLEAN :
        taskCall' = RunTask(tasks, name, func_raises) @@ [at |-> Len(taskEvents)]
    /\ UNCHANGED <<tasks, taskEvents>>
    /\ UNCHANGED <<scoreVars, sheetVars, splitVars, logVars, guiVars>>

\* the caller of run_task goes on
TaskCallHandled ==
    /\ taskCall # NoCall
    /\ taskCall' = NoCall
    /\ UNCHANGED <<tasks, taskEvents>>
    /\ UNCHANGED <<scoreVars, sheetVars, splitVars, logVars, guiVars>>

\* a fresh TaskManager
TaskInit ==
    /\ tasks = <<>>
    /\ taskEvents = <<>>
    /\ taskCall = NoCall

(***************************************************************************)
(* The control panel (lead_gen_gui.py): tasks run in threads, one at a     *)
(* time or as a pipeline.  Of the widgets the model keeps the notices and  *)
(* the completion reports; the progress bar and the status label are left  *)
(* out, as is the status callback of the pipeline thread.                  *)
(***************************************************************************)
\* the tasks of the pipeline with their check boxes, in the order
\* run_full_pipeline goes through them
PipelineOrder ==
    <<"run_linkedin_scraper", "run_reddit_scraper", "run_lead_scorer",
      "run_message_generator", "run_email_reporter">>

\* the task names of the buttons
ButtonTasks == {PipelineOrder[i] : i \in DOMAIN PipelineOrder}

\* None
PyNone == [none |-> TRUE]

\* a str, as its pieces
Str(pieces) == [str |-> pieces]

\* str(e) of the exceptions of the model: one of them has no message
ExceptionTexts == {<<>>, <<"boom">>}

\* how a run_task call ends: it returns the task's result or raises
TaskOutcomes == {[raised |-> FALSE]} \cup {[raised |-> TRUE, text |-> x] : x \in ExceptionTexts}

\* what the task called task_name returns
TaskResult(task_name) == Str(<<"result of ", task_name>>)

\* if error: whether a value counts as true
Truthy(x) == x # PyNone /\ x.str # <<>>

NoNotice == [text |-> "none"]

\* the places of x in a list
Places(list, x) == {i \in DOMAIN list : list[i] = x}

\* if x in list: list.remove(x)
RemoveIfIn(list, x) ==
    IF Places(list, x) = {} THEN list
    ELSE LET i == CHOOSE j \in Places(list, x) : \A k \in Places(list, x) : j <= k
         IN SubSeq(list, 1, i - 1) \o SubSeq(list, i + 1, Len(list))

\* a pipeline of all the tasks, selected or not
TasksToRunAll(selected) == PipelineOrder

\* tasks_to_run of run_full_pipeline: selected holds the task names whose
\* check box is set
TasksToRun(selected) == SelectSeq(PipelineOrder, LAMBDA task_name : task_name \in selected)

\* the threads in which a run_task call for the task is under way: those that
\* have started it and not ended it
ExecutingThreads(ths, task_name) ==
    {t \in DOMAIN ths : /\ Len(ths[t].started) > Len(ths[t].ended)
                        /\ ths[t].started[Len(ths[t].started)] = task_name}

\* the thread run_task_async starts (while_executing: whether the task was
\* under way in a thread when it was started)
TaskThread(task_name, while_executing) ==
    [target |-> "_run_task_thread", task_name |-> task_name, pc |-> "run",
     while_executing |-> while_executing, started |-> <<task_name>>, ended |-> <<>>]

\* the thread run_full_pipeline starts: i is the place of the loop in tasks
PipelineThread(selected) ==
    [target |-> "_run_pipeline_thread", selected |-> selected, tasks |-> TasksToRun(selected),
     i |-> 1, pc |-> "append", results |-> <<>>, error |-> PyNone,
     started |-> <<>>, ended |-> <<>>]

\* run_task_async: a click on the button of a task
RunTaskAsync ==
    /\ \E task_name \in ButtonTasks :
        IF Places(running_tasks, task_name) # {}
        THEN /\ notice' = [text |-> "already running"]
             /\ UNCHANGED <<running_tasks, threads>>
        ELSE /\ Len(threads) < MaxThreads
             /\ running_tasks' = Append(running_tasks, task_name)
             /\ threads' = Append(threads,
                                 TaskThread(task_name,
                                            ExecutingThreads(threads, task_name) # {}))
             /\ notice' = NoNotice
    /\ UNCHANGED <<uiQueue, reports>>
    /\ UNCHANGED <<scoreVars, sheetVars, splitVars, logVars, taskVars>>

\* the callback a _run_task_thread passes to root.after when run_task has
\* ended (thread: the thread that passes it)
TaskCallback(thread, task_name, outcome) ==
    [fn |-> "_task_completed", thread |-> thread, task_name |-> task_name,
     result |-> IF outcome.raised THEN PyNone ELSE TaskResult(task_name),
     error |-> IF outcome.raised THEN Str(outcome.text) ELSE PyNone]

\* _run_task_thread: run_task ends and the completion is passed to the main
\* thread
RunTaskThread ==
    /\ \E t \in DOMAIN threads, outcome \in TaskOutcomes :
        /\ threads[t].target = "_run_task_thread"
        /\ threads[t].pc = "run"
        /\ uiQueue' = Append(uiQueue, TaskCallback(t, threads[t].task_name, outcome))
        /\ threads' = [threads EXCEPT ![t].pc = "done",
                                      ![t].ended = <<[task_name |-> threads[t].task_name,
                                                      outcome |-> outcome]>>]
    /\ UNCHANGED <<running_tasks, reports, notice>>
    /\ UNCHANGED <<scoreVars, sheetVars, splitVars, logVars, taskVars>>

\* a _task_completed that takes the name off the list only when the task
\* returned
RunningAfterTaskKeepFailed(list, callback) ==
    IF Truthy(callback.error) THEN list ELSE RemoveIfIn(list, callback.task_name)

\* _task_completed: running_tasks afterwards
RunningAfterTask(list, callback) == RemoveIfIn(list, callback.task_name)

\* _task_completed, run by the main thread
TaskCompleted ==
    /\ uiQueue # <<>>
    /\ Head(uiQueue).fn = "_task_completed"
    /\ running_tasks' = RunningAfterTask(running_tasks, Head(uiQueue))
    /\ reports' = Append(reports, [thread |-> Head(uiQueue).thread,
                                   failed |-> Truthy(Head(uiQueue).error),
                                   error |-> Head(uiQueue).error,
                                   results |-> <<Head(uiQueue).result>>])
    /\ uiQueue' = Tail(uiQueue)
    /\ notice' = NoNotice
    /\ UNCHANGED threads
    /\ UNCHANGED <<scoreVars, sheetVars, splitVars, logVars, taskVars>>

\* run_full_pipeline: a click on its button that is not confirmed, or is
\* confirmed while no check box is set, or while the check boxes of the
\* tasks in selected are set
RunFullPipeline ==
    /\ \/ /\ notice' = NoNotice
          /\ UNCHANGED threads
       \/ /\ TasksToRun({}) = <<>>
          /\ notice' = [text |-> "no tasks selected"]
          /\ UNCHANGED threads
       \/ /\ Len(threads) < MaxThreads
          /\ \E selected \in {S \in SUBSET ButtonTasks : Cardinality(S) <= MaxSelected} :
                /\ TasksToRun(selected) # <<>>
                /\ threads' = Append(threads, PipelineThread(selected))
          /\ notice' = NoNotice
    /\ UNCHANGED <<running_tasks, uiQueue, reports>>
    /\ UNCHANGED <<scoreVars, sheetVars, splitVars, logVars, taskVars>>

\* _run_pipeline_thread: the next task of the loop is added to running_tasks
\* and started
PipelineTaskStarts ==
    /\ \E t \in DOMAIN threads :
        /\ threads[t].target = "_run_pipeline_thread"
        /\ threads[t].pc = "append"
        /\ running_tasks' = Append(running_tasks, threads[t].tasks[threads[t].i])
        /\ threads' = [threads EXCEPT ![t].pc = "run",
                                      ![t].started = Append(@, threads[t].tasks[threads[t].i])]
    /\ UNCHANGED <<uiQueue, reports, notice>>
    /\ UNCHANGED <<scoreVars, sheetVars, splitVars, logVars, taskVars>>

\* a loop that goes on to the next task when a task has raised
PipelineAfterTaskGoesOn(th, outcome) ==
    LET task_name == th.tasks[th.i]
        ended == Append(th.ended, [task_name |-> task_name, outcome |-> outcome])
        pc == IF th.i + 1 > Len(th.tasks) THEN "done" ELSE "append"
    IN IF outcome.raised
       THEN [th EXCEPT !.error = Str(<<"Error in ", task_name, ": ">> \o outcome.text),
                       !.i = @ + 1, !.pc = pc, !.ended = ended]
       ELSE [th EXCEPT !.results = Append(@, task_name), !.i = @ + 1, !.pc = pc,
                       !.ended = ended]

\* _run_pipeline_thread: the thread when the run_task call of its loop has
\* ended: the result is kept and the loop goes on, or the error is kept and
\* the loop is left
PipelineAfterTask(th, outcome) ==
    LET task_name == th.tasks[th.i]
        ended == Append(th.ended, [task_name |-> task_name, outcome |-> outcome])
    IN IF outcome.raised
       THEN [th EXCEPT !.error = Str(<<"Error in ", task_name, ": ">> \o outcome.text),
                       !.pc = "done", !.ended = ended]
       ELSE [th EXCEPT !.results = Append(@, task_name), !.i = @ + 1,
                       !.pc = IF th.i + 1 > Len(th.tasks) THEN "done" ELSE "append",
                       !.ended = ended]

\* the callback a _run_pipeline_thread passes to root.after after its loop
PipelineCallback(thread, th) ==
    [fn |-> "_pipeline_completed", thread |-> thread,
     results |-> [k \in DOMAIN th.results |-> TaskResult(th.results[k])],
     error |-> th.error]

\* _run_pipeline_thread: the run_task call of the loop ends, the task is
\* taken off running_tasks; after the last task, or a task that raised, the
\* completion is passed to the main thread
PipelineTaskEnds ==
    /\ \E t \in DOMAIN threads, outcome \in TaskOutcomes :
        /\ threads[t].target = "_run_pipeline_thread"
        /\ threads[t].pc = "run"
        /\ LET th == PipelineAfterTask(threads[t], outcome)
           IN /\ threads' = [threads EXCEPT ![t] = th]
              /\ running_tasks' = RemoveIfIn(running_tasks, threads[t].tasks[threads[t].i])
              /\ uiQueue' = IF th.pc = "done" THEN Append(uiQueue, PipelineCallback(t, th))
                            ELSE uiQueue
    /\ UNCHANGED <<reports, notice>>
    /\ UNCHANGED <<scoreVars, sheetVars, splitVars, logVars, taskVars>>

\* _pipeline_completed, run by the main thread
PipelineCompleted ==
    /\ uiQueue # <<>>
    /\ Head(uiQueue).fn = "_pipeline_completed"
    /\ reports' = Append(reports, [thread |-> Head(uiQueue).thread,
                                   failed |-> Truthy(Head(uiQueue).error),
                                   error |-> Head(uiQueue).error,
                                   results |-> Head(uiQueue).results])
    /\ uiQueue' = Tail(uiQueue)
    /\ notice' = NoNotice
    /\ UNCHANGED <<running_tasks, threads>>
    /\ UNCHANGED <<scoreVars, sheetVars, splitVars, logVars, taskVars>>

\* the control panel as built
GuiInit ==
    /\ running_tasks = <<>>
    /\ threads = <<>>
    /\ uiQueue = <<>>
    /\ reports = <<>>
    /\ notice = NoNotice

(***************************************************************************)
(* The email reporter's engagement metrics (email_reporter.py).            *)
(***************************************************************************)
\* the Status cells of the model: what save_*_messages writes and what the
\* user types later
StatusCells == {"Pending Review", "Sent", "RESPONDED"}

\* the Date Sent cells of the model: empty, or a date (YYYY-MM-DD...) the
\* user types
DateSentCells == {"", "day 8", "day 91"}

\* the day number of a Date Sent cell that is not empty
DayOf(cell) == IF cell = "day 8" THEN 8 ELSE 91

\* str.lower() of a Status cell
Lower(cell) ==
    CASE cell = "Pending Review" -> "pending review"
      [] cell = "Sent" -> "sent"
      [] cell = "RESPONDED" -> "responded"
      [] OTHER -> cell

\* the days get_engagement_metrics looks back: 30 in the daily report, 7 for
\* another caller
DaysChoices == {7, 30}

\* date_sent and date_sent >= cutoff_date (dates compare as their texts do)
SentSince(row, cutoff_day) == row.date_sent # "" /\ DayOf(row.date_sent) >= cutoff_day

\* a count of the responses that leaves the dates out
GetMessageMetricsAnyDate(ws, cutoff_day) ==
    IF RowCount(ws) <= 1 \/ ~ws.hdr THEN <<0, 0>>
    ELSE LET rows == DataRows(ws)
         IN <<Cardinality({i \in DOMAIN rows :
                              /\ SentSince(rows[i], cutoff_day)
                              /\ Lower(rows[i].status) \in {"sent", "responded"}}),
              Cardinality({i \in DOMAIN rows : Lower(rows[i].status) = "responded"})>>

\* _get_message_metrics: (messages sent, responses) of a messages worksheet;
\* a worksheet without its header row has a message row read as headers, in
\* which no 'status' and no 'date sent' column is found
GetMessageMetrics(ws, cutoff_day) ==
    IF RowCount(ws) <= 1 \/ ~ws.hdr THEN <<0, 0>>
    ELSE LET rows == DataRows(ws)
         IN <<Cardinality({i \in DOMAIN rows :
                              /\ SentSince(rows[i], cutoff_day)
                              /\ Lower(rows[i].status) \in {"sent", "responded"}}),
              Cardinality({i \in DOMAIN rows :
                              /\ SentSince(rows[i], cutoff_day)
                              /\ Lower(rows[i].status) = "responded"})>>

\* max(0, len(worksheet.get_all_values()) - 1)
LeadsCount(ws) == IF RowCount(ws) - 1 > 0 THEN RowCount(ws) - 1 ELSE 0

\* the rows of a scores worksheet with 'high_priority' in the priority column
HighPriorityCount(ws) ==
    IF RowCount(ws) > 1 /\ ws.hdr
    THEN Cardinality({i \in DOMAIN DataRows(ws) :
                         DataRows(ws)[i].priority_level = "high_priority"})
    ELSE 0

\* get_engagement_metrics; response_rate in tenths of a percent
GetEngagementMetrics(leads_wss, scores_wss, messages_wss, now, days) ==
    LET cutoff_day == now - days
        linkedin == GetMessageMetrics(messages_wss["linkedin"], cutoff_day)
        reddit == GetMessageMetrics(messages_wss["reddit"], cutoff_day)
        messages_sent == linkedin[1] + reddit[1]
        replies_received == linkedin[2] + reddit[2]
    IN [total_leads |-> LeadsCount(leads_wss["linkedin"]) + LeadsCount(leads_wss["reddit"]),
        linkedin_leads |-> LeadsCount(leads_wss["linkedin"]),
        reddit_leads |-> LeadsCount(leads_wss["reddit"]),
        messages_sent |-> messages_sent,
        response_rate |-> IF messages_sent > 0
                          THEN RoundHalfEven(replies_received * 1000, messages_sent)
                          ELSE 0,
        high_priority_leads |-> HighPriorityCount(scores_wss["linkedin"])
                                  + HighPriorityCount(scores_wss["reddit"]),
        replies_received |-> replies_received]

\* EmailReporter.get_engagement_metrics, with what its two
\* _get_message_metrics calls returned
EngagementMetricsRead ==
    /\ Idle
    /\ \E days \in DaysChoices :
        lastRun' = [op |-> "engagement", days |-> days,
                    message_metrics |->
                        [p \in Platforms |-> GetMessageMetrics(messagesWs[p], Today - days)],
                    returned |-> GetEngagementMetrics(leadsWs, scoresWs, messagesWs,
                                                      Today, days)]
    /\ UNCHANGED <<site, leadsWs, scoresWs, messagesWs>>
    /\ UNCHANGED <<scoreVars, splitVars, logVars, taskVars, guiVars>>

\* the message rows of a spreadsheet the user has worked in
EditedMessageRows ==
    [url : {"u1"}, generated_message : {"message"}, status : StatusCells,
     response : {""}, date_sent : DateSentCells]

\* the worksheets of a spreadsheet in use: MaxRows message rows at most
ReportSheetsInit ==
    /\ site = NoSite
    /\ lastRun = NoRun
    /\ leadsWs \in [Platforms -> {EmptyWs, [hdr |-> TRUE, rows |-> <<[url |-> "u1"]>>]}]
    /\ scoresWs \in {[p \in Platforms |-> ws] :
                        ws \in {EmptyWs,
                                [hdr |-> TRUE,
                                 rows |-> <<ScoreRow([url |-> "u1", response_score |-> 80,
                                                      priority_level |-> "high_priority"])>>]}}
    /\ messagesWs \in [Platforms -> {[hdr |-> h, rows |-> rows] :
                                        h \in BOOLEAN,
                                        rows \in SeqsUpTo(EditedMessageRows, MaxRows)}]
    /\ TotalRows(messagesWs) <= MaxRows

(***************************************************************************)
(* The specifications.                                                     *)
(***************************************************************************)
\* the spreadsheet as set up: the two leads worksheets with their header
\* rows, no scores or messages worksheet yet
SheetsInit ==
    /\ site = NoSite
    /\ leadsWs = [p \in Platforms |-> [hdr |-> TRUE, rows |-> <<>>]]
    /\ scoresWs = [p \in Platforms |-> EmptyWs]
    /\ messagesWs = [p \in Platforms |-> EmptyWs]
    /\ lastRun = NoRun
    /\ generated = NoSplit
    /\ LogInit
    /\ TaskInit
    /\ GuiInit

\* a scorer at rest with AI analysis off
ScorerInit ==
    /\ clock = 1
    /\ useAI = FALSE
    /\ lead = NoLead
    /\ scored = NoScore
    /\ prevScored = NoScore

\* the scorer as constructed, with or without AI analysis (_init_openai_client
\* turns it off when the client cannot be made)
InitScore ==
    /\ clock = 1
    /\ useAI \in BOOLEAN
    /\ lead = NoLead
    /\ scored = NoScore
    /\ prevScored = NoScore
    /\ SheetsInit

NextScore == Tick \/ ScoreLinkedIn \/ ScoreReddit \/ DropLead

\* scoring single leads, with and without the external model
SpecScore == InitScore /\ [][NextScore]_vars

InitRescore == InitScore /\ useAI = FALSE

NextRescore == Tick \/ ScoreLinkedIn \/ ScoreReddit \/ Rescore \/ DropLead

\* scoring with AI analysis off, the same lead possibly twice
SpecRescore == InitRescore /\ [][NextRescore]_vars

InitSheets == ScorerInit /\ SheetsInit

NextScrape == SiteShows \/ RunRedditScraper \/ RunLinkedInScraper \/ ReturnHandled

\* the two scrapers, run any number of times on whatever the sites show
SpecScrape == InitSheets /\ [][NextScrape]_vars

NextSheets ==
    \/ SiteShowsTypical
    \/ RunRedditScraper
    \/ RunLinkedInScraper
    \/ ScoreLinkedInLeads
    \/ ScoreRedditLeads
    \/ ScoreAllLeads
    \/ ManualScoreUpdate
    \/ GenerateLinkedInMessages
    \/ GenerateRedditMessages
    \/ RunEmailReporter
    \/ ReturnHandled

\* every operation on the worksheets, in any order
SpecSheets == InitSheets /\ [][NextSheets]_vars

NextLog ==
    \/ Tick
    \/ StartOperation
    \/ UpdateMetrics
    \/ EndOperation
    \/ DailyMetricsRead
    \/ DailyMetricsHandled

\* one LogManager writing the activity log, and the log read back
SpecLog == InitSheets /\ [][NextLog]_vars

NextTasks == RegisterTask \/ UpdateTaskSettings \/ RunTaskCalled \/ TaskCallHandled

\* a task manager: tasks registered, their settings changed, tasks run
SpecTasks == InitSheets /\ [][NextTasks]_vars

NextGui ==
    \/ RunTaskAsync
    \/ RunTaskThread
    \/ TaskCompleted
    \/ RunFullPipeline
    \/ PipelineTaskStarts
    \/ PipelineTaskEnds
    \/ PipelineCompleted

\* the control panel: clicks, the threads they start, the main thread
SpecGui == InitSheets /\ [][NextGui]_vars

InitReport ==
    /\ ScorerInit
    /\ ReportSheetsInit
    /\ generated = NoSplit
    /\ LogInit
    /\ TaskInit
    /\ GuiInit

NextReport == Tick \/ EngagementMetricsRead \/ ReturnHandled

\* the engagement metrics of the email reporter over a spreadsheet in use
SpecReport == InitReport /\ [][NextReport]_vars

NextSplit == GenerateLinkedInMessage \/ GenerateRedditMessage \/ MessageHandled

\* the message generator on whatever the language model answers
SpecSplit == InitSheets /\ [][NextSplit]_vars

(***************************************************************************)
(* Properties of scoring one lead.                                         *)
(***************************************************************************)
\* C1: whatever the lead and whatever the external model's call comes to (a
\* score in or out of range, no score, a NaN, a failure), the response_score
\* of the returned lead is between 1.0 and 10.0 (10 and 100 tenths).
C1_ResponseScoreInRange ==
    scored # NoScore => (scored.response_score >= 10 /\ scored.response_score <= 100)

\* a lead scored with the external model's help whose blended score fell
\* below 1 and was clipped
C1_Witness ==
    /\ scored # NoScore
    /\ scored.error = "no"
    /\ scored.ai.k = "score"
    /\ scored.blended < 100000
    /\ scored.response_score = 10

C2_Malformed(l) ==
    \/ l.platform = "linkedin" /\ l.posts = "number"
    \/ l.platform = "reddit" /\ l.score = "inf"

C3_ExternalScore(ai) ==
    CASE ai.k = "score"   -> ai.v
      [] ai.k = "missing" -> 50
      [] OTHER            -> 0

\* C3: with AI analysis the score before the clip is 0.4 * rule-based +
\* 0.6 * external (a NaN when the external score is one), without it the
\* rule-based score; the final score is that number clipped to 1..10 (10 for
\* a NaN).
C3_BlendThenClip ==
    (scored # NoScore /\ scored.error = "no") =>
        /\ scored.blended =
              IF ~useAI THEN 10 * scored.rule_based_score
              ELSE IF scored.ai.k = "nan" THEN NaN
              ELSE 4 * scored.rule_based_score + 6000 * C3_ExternalScore(scored.ai)
        /\ scored.final_score =
              IF scored.blended = NaN THEN 1000000
              ELSE IF scored.blended < 100000 THEN 100000
              ELSE IF scored.blended > 1000000 THEN 1000000
              ELSE scored.blended

\* a lead scored with AI analysis on, the external score differing from the
\* rule-based one, and the blend above 10 so that the clip acts
C3_Witness ==
    /\ scored # NoScore
    /\ scored.error = "no"
    /\ useAI
    /\ scored.ai.k = "score"
    /\ scored.rule_based_score # 1000 * scored.ai_score
    /\ scored.blended > 1000000
    /\ scored.final_score = 1000000

\* whether two results carry the same scores and the same bucket
C9_SameResult(a, b) ==
    /\ a.error = b.error
    /\ a.rule_based_score = b.rule_based_score
    /\ a.final_score = b.final_score
    /\ a.response_score = b.response_score
    /\ a.priority_level = b.priority_level

C9_Band(date, now) ==
    IF date.k # "ymd" THEN "no date"
    ELSE IF now - date.day <= 7 THEN "recent"
    ELSE IF now - date.day <= 30 THEN "medium"
    ELSE IF now - date.day <= 90 THEN "old"
    ELSE "very_old"

DistinctUrls(rows) ==
    \A i, j \in DOMAIN rows : i # j => rows[i].url # rows[j].url

\* the rows of a worksheet from row n + 1 on
RowsAfter(ws, n) == SubSeq(ws.rows, n + 1, Len(ws.rows))

\* C4 (as stated): after any runs of process_linkedin_leads and
\* process_reddit_leads over any contents of the leads worksheets, each scores
\* worksheet holds at most one score row per source URL.
C4_OneScoreRowPerUrl ==
    \A p \in Platforms : DistinctUrls(DataRows(scoresWs[p]))

\* C5 (as stated): after any sequence of scraper runs each leads worksheet
\* holds at most one row per source URL.
C5_OneLeadRowPerUrl ==
    \A p \in Platforms : DistinctUrls(DataRows(leadsWs[p]))

\* C5 (amended): the rows one run of run_reddit_scraper appends hold pairwise
\* distinct URLs; nothing is said of the rows of earlier runs or of the
\* LinkedIn scraper.
C5_OneRowPerUrlPerRedditRun ==
    lastRun.op = "reddit_scrape" =>
        DistinctUrls(RowsAfter(leadsWs["reddit"], lastRun.rows_before))

\* a Reddit run has appended a URL that an earlier run had stored
C5_Witness ==
    /\ lastRun.op = "reddit_scrape"
    /\ lastRun.saved
    /\ lastRun.rows_before > 0
    /\ \E i \in 1..lastRun.rows_before :
          leadsWs["reddit"].rows[i].url
             \in UrlsOf(RowsAfter(leadsWs["reddit"], lastRun.rows_before))

\* the leads of a Reddit run as found: the subreddit results followed by the
\* keyword-search results
C6_Found ==
    lastRun.subreddit_leads \o KeywordLeadsFrom(lastRun.keyword_leads, 1)

\* C6: the leads one run_full_scrape returns, and saves when it has a
\* worksheet, have pairwise distinct URLs, every URL found is among them, and
\* each is the first lead with its URL among the subreddit results followed by
\* the keyword-search results.
C6_FirstOccurrenceKept ==
    lastRun.op = "reddit_scrape" =>
        LET found == C6_Found
            kept == lastRun.returned
        IN /\ DistinctUrls(kept)
           /\ UrlsOf(kept) = UrlsOf(found)
           /\ \A i \in DOMAIN kept :
                \E j \in DOMAIN found :
                    /\ found[j] = kept[i]
                    /\ \A k \in 1..(j - 1) : found[k].url # kept[i].url
           /\ lastRun.saved =>
                RowsAfter(leadsWs["reddit"], lastRun.rows_before)
                    = [i \in DOMAIN kept |-> LeadRow(kept[i])]

\* a run has found one URL in a subreddit and again by a search, and saved
C6_Witness ==
    /\ lastRun.op = "reddit_scrape"
    /\ lastRun.saved
    /\ \E i \in DOMAIN C6_Found, j \in DOMAIN C6_Found :
          /\ i < j
          /\ C6_Found[i].url = C6_Found[j].url
          /\ C6_Found[i].tag = "sub"
          /\ C6_Found[j].tag # "sub"

\* the rows of the worksheet before are the first rows of the worksheet after
C7_Extends(old, new) ==
    /\ old.hdr => new.hdr
    /\ Len(old.rows) <= Len(new.rows)
    /\ SubSeq(new.rows, 1, Len(old.rows)) = old.rows

\* the worksheet after has the rows of the worksheet before, each in its
\* place and the same outside its three manual cells
C7_SameRows(old, new) ==
    /\ old.hdr = new.hdr
    /\ Len(old.rows) = Len(new.rows)
    /\ \A i \in DOMAIN old.rows :
          \A f \in DOMAIN old.rows[i] \ ManualKeys : new.rows[i][f] = old.rows[i][f]

\* C7: no operation takes a row from a worksheet: every step leaves the rows
\* of every worksheet where they were and adds rows after them only, and a
\* step of update_manual_scores adds none and changes manual cells only.
C7_RowsOnlyAppended ==
    [][\A p \in Platforms :
          /\ C7_Extends(leadsWs[p], leadsWs'[p])
          /\ C7_Extends(messagesWs[p], messagesWs'[p])
          /\ IF lastRun'.op = "manual"
             THEN C7_SameRows(scoresWs[p], scoresWs'[p])
             ELSE C7_Extends(scoresWs[p], scoresWs'[p])]_vars

\* rows were appended after existing ones to a leads, a scores and a messages
\* worksheet, and a manual update has rewritten a cell of the first of two
\* score rows
C7_Witness ==
    /\ lastRun.op = "manual"
    /\ lastRun.returned
    /\ \E p \in Platforms :
          /\ Len(leadsWs[p].rows) = 2
          /\ Len(scoresWs[p].rows) = 2
          /\ Len(messagesWs[p].rows) = 2
          /\ scoresWs[p].rows[1].notes = "call back"
          /\ scoresWs[p].rows[2].notes = ""

\* C8: every step leaves status, response and date sent of the message rows
\* there are as they were, and every message row it adds has status
\* "Pending Review", an empty response and an empty date sent.
C8_MessageRowsPendingAndUntouched ==
    [][\A p \in Platforms :
          /\ Len(messagesWs'[p].rows) >= Len(messagesWs[p].rows)
          /\ \A i \in DOMAIN messagesWs'[p].rows :
                LET new == messagesWs'[p].rows[i]
                IN IF i <= Len(messagesWs[p].rows)
                   THEN /\ new.status = messagesWs[p].rows[i].status
                        /\ new.response = messagesWs[p].rows[i].response
                        /\ new.date_sent = messagesWs[p].rows[i].date_sent
                   ELSE /\ new.status = "Pending Review"
                        /\ new.response = ""
                        /\ new.date_sent = ""]_vars

\* a run of the message generator has added a row after an existing message
\* row, on a spreadsheet whose scores a manual update has rewritten
C8_Witness ==
    /\ lastRun.op = "messages"
    /\ Len(lastRun.returned) = 1
    /\ Len(messagesWs[lastRun.platform].rows) = 2
    /\ \E p \in Platforms :
          \E i \in DOMAIN scoresWs[p].rows : scoresWs[p].rows[i].manual_adjustment # ""

(***************************************************************************)
(* Properties of the split of a response.                                  *)
(***************************************************************************)
C10_Headings == {"R", "S"}

\* message paragraphs: text with line breaks inside, none at its ends, and
\* no heading
C10_Paragraphs(text) ==
    /\ text # <<>>
    /\ \A i \in DOMAIN text : text[i] \notin C10_Headings
    /\ Strip(text) = text

\* the reasoning half as text: its heading, when it was split off, and the rest
C10_Text(reasoning) ==
    (IF reasoning.heading = "" THEN <<>> ELSE <<reasoning.heading>>) \o reasoning.rest

\* the text and the headings of a text, its line breaks left out
C10_Words(text) == SelectSeq(text, LAMBDA t : t # "nl")

\* C10 (as stated): for a response made of message paragraphs, a blank line
\* and a reasoning section under its heading, the message returned is the
\* paragraphs and the reasoning returned is the reasoning section (up to its
\* line breaks), nothing of the message in it; for a response without any heading the message is the
\* whole response and the reasoning the fixed text.
C10_MessagePrecedesReasoning ==
    (generated # NoSplit /\ generated.response # Failed) =>
        LET full_response == generated.response
            headings == {i \in DOMAIN full_response : full_response[i] \in C10_Headings}
        IN /\ \A k \in headings :
                (/\ \A i \in headings : k <= i
                 /\ k > 3
                 /\ full_response[k - 1] = "nl"
                 /\ full_response[k - 2] = "nl"
                 /\ C10_Paragraphs(SubSeq(full_response, 1, k - 3)))
                => /\ generated.message = SubSeq(full_response, 1, k - 3)
                   /\ C10_Words(C10_Text(generated.reasoning))
                        = C10_Words(SubSeq(full_response, k, Len(full_response)))
           /\ headings = {} =>
                /\ generated.message = full_response
                /\ generated.reasoning = NoReasoning

(***************************************************************************)
(* Properties of the priority bucket, the length bands and the fallback.   *)
(***************************************************************************)
\* the bucket of a score in tenths under the thresholds 7.0, 4.0, 2.0 and 0
C13_BucketOfTenths(score10) ==
    IF score10 >= 70 THEN "high_priority"
    ELSE IF score10 >= 40 THEN "medium_priority"
    ELSE IF score10 >= 20 THEN "low_priority"
    ELSE "very_low_priority"

C13_BucketOfFinal(final_e5) ==
    IF final_e5 >= 700000 THEN "high_priority"
    ELSE IF final_e5 >= 400000 THEN "medium_priority"
    ELSE IF final_e5 >= 200000 THEN "low_priority"
    ELSE "very_low_priority"

C14_BandWeight(len) ==
    IF len = 0 THEN 10
    ELSE IF len < 100 THEN 8
    ELSE IF len <= 500 THEN 10
    ELSE IF len < 1000 THEN 12
    ELSE 14

\* C14 (as stated): the content length multiplier of a scored lead is the
\* weight of the configured band of its text length: 0.8 below 100
\* characters, 1.0 up to 500, 1.2 up to 1000, 1.4 from 1000 on.
C14_FourLengthBands ==
    (scored # NoScore /\ scored.error = "no")
        => scored.content_length_multiplier = C14_BandWeight(scored.input.len)

\* the range 1 to 10 in units of 1/100000
C15_Clip(x) == IF x < 100000 THEN 100000 ELSE IF x > 1000000 THEN 1000000 ELSE x

\* C15 (as stated): a lead scored without the external model, AI analysis
\* being off (the client could not be initialised) or the call having failed,
\* has its rule-based score, clipped to 1..10, as its final score.
C15_RuleBasedWhenUnavailable ==
    (/\ scored # NoScore
     /\ scored.error = "no"
     /\ (~scored.ai_enabled \/ scored.ai.k = "failed"))
        => scored.final_score = C15_Clip(10 * scored.rule_based_score)

(***************************************************************************)
(* Properties of the daily metrics.                                        *)
(***************************************************************************)
\* the operations started on a date
C11_StartedOn(date) == SelectSeq(operations, LAMBDA op : op.date = date)

\* C11 (as stated): the metrics get_daily_metrics returns for a date count
\* every operation started on that date once: total_operations is their
\* number and each counter is the sum of their last values of that counter.
C11_EachOperationOnce ==
    dailyMetrics # NoMetricsReport =>
        LET ops == C11_StartedOn(dailyMetrics.date)
        IN /\ dailyMetrics.total_operations = Len(ops)
           /\ \A c \in Counters :
                dailyMetrics.counters[c]
                    = SumSeq([i \in DOMAIN ops |-> ops[i].counters[c]])

(***************************************************************************)
(* Properties of the task manager.                                         *)
(***************************************************************************)
\* the calls made on the task manager before the run_task call under way
C12_History ==
    IF taskCall = NoCall THEN <<>> ELSE SubSeq(taskEvents, 1, taskCall.at)

\* the places of the register_task calls made for a name
C12_Registrations(name) ==
    {i \in DOMAIN C12_History : C12_History[i].op = "register" /\ C12_History[i].name = name}

\* the number of a task name in the order of update_task_settings
C12_Place(name) == CHOOSE i \in DOMAIN TaskNames : TaskNames[i] = name

\* whether the settings call made as event e reached the task name: every
\* task before it was registered by then
C12_Reached(name, e) ==
    \A j \in 1..C12_Place(name) : \E r \in C12_Registrations(TaskNames[j]) : r < e

\* the value stored for key k of the kwargs of a name last registered by
\* event r: that of the last settings call after r that reached the name,
\* else the registered one
C12_StoredValue(name, r, k) ==
    LET later == {e \in DOMAIN C12_History :
                    /\ e > r
                    /\ C12_History[e].op = "settings"
                    /\ C12_Reached(name, e)
                    /\ k \in DOMAIN C12_History[e].settings[C12_Place(name)]}
    IN IF later = {} THEN C12_History[r].kwargs[k]
       ELSE C12_History[CHOOSE e \in later : \A f \in later : f <= e]
                .settings[C12_Place(name)][k]

\* the keys stored for the kwargs of a name last registered by event r
C12_StoredKeys(name, r) ==
    DOMAIN C12_History[r].kwargs
        \cup UNION {DOMAIN C12_History[e].settings[C12_Place(name)] :
                      e \in {f \in DOMAIN C12_History :
                                f > r /\ C12_History[f].op = "settings" /\ C12_Reached(name, f)}}

\* C12: run_task for a name that was registered calls the function of the
\* last register_task call for that name with the keyword arguments of that
\* call as the settings calls since have changed them, and returns what the
\* function returns; for a name never registered it raises ValueError and
\* calls no function.
C12_RunsLastRegistered ==
    taskCall # NoCall =>
        IF C12_Registrations(taskCall.name) = {}
        THEN taskCall.raised = "ValueError" /\ taskCall.called = "none"
        ELSE LET r == CHOOSE i \in C12_Registrations(taskCall.name) :
                        \A j \in C12_Registrations(taskCall.name) : j <= i
                 kwargs == [k \in C12_StoredKeys(taskCall.name, r) |->
                               C12_StoredValue(taskCall.name, r, k)]
             IN /\ taskCall.called = C12_History[r].func
                /\ taskCall.kwargs = kwargs
                /\ taskCall.raised # "ValueError"
                /\ taskCall.raised = "none"
                     => taskCall.returned = [by |-> C12_History[r].func, with |-> kwargs]

\* a task registered twice, its settings changed since, has been run and has
\* returned
C12_Witness ==
    /\ taskCall # NoCall
    /\ taskCall.raised = "none"
    /\ \E i, j \in C12_Registrations(taskCall.name) :
          /\ i < j
          /\ C12_History[i].func # C12_History[j].func
          /\ \E e \in DOMAIN C12_History :
                /\ e > j
                /\ C12_History[e].op = "settings"
                /\ taskCall.kwargs # C12_History[j].kwargs

(***************************************************************************)
(* Properties of the scorer's runs over the worksheets.                    *)
(***************************************************************************)
\* the URLs in column 4 of the scores worksheet when the scorer's run that
\* has just returned started: those of the rows that were there
C16_UrlsAtStart ==
    {scoresWs[lastRun.platform].rows[i].url : i \in 1..lastRun.rows_before}

\* the URLs of the score rows the run that has just returned appended
C16_UrlsAppended ==
    {scoresWs[lastRun.platform].rows[i].url :
        i \in (lastRun.rows_before + 1)..Len(scoresWs[lastRun.platform].rows)}

C17_NotYetScored ==
    SelectSeq(leadsWs[lastRun.platform].rows, LAMBDA row : row.url \notin C16_UrlsAtStart)

\* C17: for every integer max_leads, zero and negative ones too, a run of
\* process_linkedin_leads or process_reddit_leads scores at most
\* max(0, max_leads) leads: the first of the leads not yet scored, in
\* worksheet order.
C17_AtMostMaxLeads ==
    lastRun.op = "score" =>
        LET n == Len(lastRun.returned)
        IN /\ n <= (IF lastRun.max_leads > 0 THEN lastRun.max_leads ELSE 0)
           /\ n <= Len(C17_NotYetScored)
           /\ \A i \in 1..n : lastRun.returned[i].url = C17_NotYetScored[i].url

\* C20: in the summary process_all_leads returns, the four priority counters
\* add up to the leads scored: linkedin_leads_scored + reddit_leads_scored.
C20_CountersAddUp ==
    lastRun.op = "score_all" =>
        lastRun.returned.high_priority_leads + lastRun.returned.medium_priority_leads
              + lastRun.returned.low_priority_leads
              + lastRun.returned.very_low_priority_leads
            = lastRun.returned.linkedin_leads_scored + lastRun.returned.reddit_leads_scored

(***************************************************************************)
(* Properties of the message generator's runs over the worksheets.         *)
(***************************************************************************)
\* the URLs in column 4 of the messages worksheet when the message run that
\* has just returned started
C18_UrlsAtStart ==
    {messagesWs[lastRun.platform].rows[i].url : i \in 1..lastRun.rows_before}

\* the leads the run that has just returned was to go through, in worksheet
\* order: with skip_existing those without a message row when it started
C18_Candidates ==
    IF lastRun.skip_existing
    THEN SelectSeq(leadsWs[lastRun.platform].rows,
                   LAMBDA row : row.url \notin C18_UrlsAtStart)
    ELSE leadsWs[lastRun.platform].rows

C19_UrlsAppended ==
    {messagesWs[lastRun.platform].rows[i].url :
        i \in (lastRun.rows_before + 1)..Len(messagesWs[lastRun.platform].rows)}

\* C19: a lead whose message generation failed is not recorded as messaged:
\* the run appends no row for its URL (so that a later run with skip_existing
\* generates for it again), and every row of the messages worksheets holds
\* text the language model produced.
C19_FailedNotRecorded ==
    /\ lastRun.op = "messages" =>
          \A i \in DOMAIN lastRun.returned :
              lastRun.returned[i].generated_message = ErrorMessage
                  => lastRun.returned[i].url \notin C19_UrlsAppended
    /\ \A p \in Platforms : \A i \in DOMAIN messagesWs[p].rows :
          messagesWs[p].rows[i].generated_message # ErrorMessage

(***************************************************************************)
(* Properties of the control panel.                                        *)
(***************************************************************************)
\* C21: a task is never executing in two threads at the same time, whatever
\* the interleaving of button clicks and pipeline runs: at most one run_task
\* call of a task name is under way, and no click starts a task that is
\* under way (it is answered with the "already running" notice).
C21_OneExecutionPerTask ==
    /\ \A task_name \in ButtonTasks : Cardinality(ExecutingThreads(threads, task_name)) <= 1
    /\ \A t \in DOMAIN threads :
          threads[t].target = "_run_task_thread" => ~threads[t].while_executing

\* the place of a task in the fixed order of the pipeline
C22_Place(task_name) == CHOOSE i \in DOMAIN PipelineOrder : PipelineOrder[i] = task_name

\* the pipeline threads
C22_Pipelines == {t \in DOMAIN threads : threads[t].target = "_run_pipeline_thread"}

\* whether a task of the thread has raised
C22_Raised(t) == \E k \in DOMAIN threads[t].ended : threads[t].ended[k].outcome.raised

\* C22: a pipeline run executes the selected tasks one at a time in the
\* order LinkedIn scraper, Reddit scraper, lead scorer, message generator,
\* email reporter: the k-th task it starts is the k-th selected task of that
\* order, it starts a task only when the one before has ended, it never
\* runs a task that is not selected, and when it is over and no task has
\* raised it has run every selected task.
C22_SelectedInOrder ==
    \A t \in C22_Pipelines :
        LET th == threads[t]
        IN /\ \A k \in DOMAIN th.started :
                 /\ th.started[k] \in th.selected
                 /\ Cardinality({n \in th.selected : C22_Place(n) < C22_Place(th.started[k])})
                      = k - 1
           /\ Len(th.started) - Len(th.ended) \in {0, 1}
           /\ \A k \in DOMAIN th.ended : th.ended[k].task_name = th.started[k]
           /\ (th.pc = "done" /\ ~C22_Raised(t))
                 => Len(th.ended) = Cardinality(th.selected)

\* a pipeline run of two selected tasks that are not neighbours in the
\* order has run both
C22_Witness ==
    \E t \in C22_Pipelines :
        /\ threads[t].pc = "done"
        /\ Len(threads[t].ended) = 2
        /\ C22_Place(threads[t].started[2]) > C22_Place(threads[t].started[1]) + 1

\* the reports made for a thread
C23_Reports(t) == {r \in DOMAIN reports : reports[r].thread = t}

\* whether the completion of a thread waits for the main thread
C23_Pending(t) == \E c \in DOMAIN uiQueue : uiQueue[c].thread = t

\* C23: when a task of a pipeline run raises, the run starts no later task
\* and is reported once, as failed with the error of that task; when no task
\* raises the run is reported once, as completed with the result of every
\* task that ran.
C23_ReportedOnce ==
    \A t \in C22_Pipelines :
        LET th == threads[t]
            last == th.ended[Len(th.ended)]
        IN /\ Cardinality(C23_Reports(t)) <= 1
           /\ (th.pc = "done" /\ ~C23_Pending(t)) => Cardinality(C23_Reports(t)) = 1
           /\ C22_Raised(t) =>
                 /\ last.outcome.raised
                 /\ Len(th.started) = Len(th.ended)
                 /\ th.pc = "done"
           /\ \A r \in C23_Reports(t) :
                 /\ th.pc = "done"
                 /\ reports[r].failed = C22_Raised(t)
                 /\ C22_Raised(t) =>
                       reports[r].error
                          = Str(<<"Error in ", last.task_name, ": ">> \o last.outcome.text)
                 /\ ~C22_Raised(t) =>
                       reports[r].results
                          = [k \in DOMAIN th.started |-> TaskResult(th.started[k])]

\* a pipeline run whose second task raised an exception without a message
\* has been reported, and so has one of two tasks that returned
C23_Witness ==
    /\ \E t \in C22_Pipelines :
          /\ Len(threads[t].ended) = 2
          /\ threads[t].ended[2].outcome = [raised |-> TRUE, text |-> <<>>]
          /\ C23_Reports(t) # {}
    /\ \E t \in C22_Pipelines :
          /\ Len(threads[t].ended) = 2
          /\ ~C22_Raised(t)
          /\ C23_Reports(t) # {}

\* the threads that hold a place in running_tasks for a task: a run_task
\* call for it is under way, or the thread is a _run_task_thread whose
\* completion the main thread has not handled
C24_Holders(task_name) ==
    ExecutingThreads(threads, task_name)
        \cup {t \in DOMAIN threads : /\ threads[t].target = "_run_task_thread"
                                     /\ threads[t].task_name = task_name
                                     /\ C23_Reports(t) = {}}

\* C24: every task name added to running_tasks is removed again when its
\* execution has ended, whether the task returned or raised, in single-task
\* runs (by the completion callback) and in pipeline runs: the list holds a
\* name once for every execution not yet over; when every started task has
\* ended and the main thread has handled the callbacks, the list is empty.
C24_RunningTasksRemoved ==
    /\ \A task_name \in ButtonTasks :
          Cardinality(Places(running_tasks, task_name))
              = Cardinality(C24_Holders(task_name))
    /\ \A i \in DOMAIN running_tasks : running_tasks[i] \in ButtonTasks
    /\ ((\A t \in DOMAIN threads : threads[t].pc = "done") /\ uiQueue = <<>>)
          => running_tasks = <<>>

\* a single-task run that raised and a pipeline run that raised are over and
\* handled
C24_Witness ==
    /\ uiQueue = <<>>
    /\ running_tasks = <<>>
    /\ \A t \in DOMAIN threads : threads[t].pc = "done"
    /\ \E t \in DOMAIN threads :
          /\ threads[t].target = "_run_task_thread"
          /\ threads[t].ended[1].outcome = [raised |-> TRUE, text |-> <<"boom">>]
    /\ \E t \in C22_Pipelines : C22_Raised(t)

(***************************************************************************)
(* Properties of the email reporter.                                       *)
(***************************************************************************)
\* C25: whatever the message worksheets hold, _get_message_metrics returns
\* counts with 0 <= responses <= messages sent, and get_engagement_metrics
\* reports replies_received <= messages_sent, a response_rate from 0 to 100
\* (0 when no message was sent), and total_leads = linkedin_leads +
\* reddit_leads with neither of the two negative.
C25_MetricsInRange ==
    lastRun.op = "engagement" =>
        /\ \A p \in Platforms :
              /\ 0 <= lastRun.message_metrics[p][2]
              /\ lastRun.message_metrics[p][2] <= lastRun.message_metrics[p][1]
        /\ lastRun.returned.replies_received <= lastRun.returned.messages_sent
        /\ 0 <= lastRun.returned.response_rate
        /\ lastRun.returned.response_rate <= 1000
        /\ lastRun.returned.messages_sent = 0 => lastRun.returned.response_rate = 0
        /\ lastRun.returned.total_leads
              = lastRun.returned.linkedin_leads + lastRun.returned.reddit_leads
        /\ lastRun.returned.linkedin_leads >= 0
        /\ lastRun.returned.reddit_leads >= 0

\* metrics over a spreadsheet with a message answered too long ago to count
\* and one sent since: one message sent, no reply
C25_Witness ==
    /\ lastRun.op = "engagement"
    /\ lastRun.returned.messages_sent = 1
    /\ lastRun.returned.replies_received = 0
    /\ lastRun.returned.total_leads > 0
    /\ \E p \in Platforms : \E i \in DOMAIN messagesWs[p].rows :
          /\ messagesWs[p].hdr
          /\ Lower(messagesWs[p].rows[i].status) = "responded"
          /\ messagesWs[p].rows[i].date_sent = "day 8"

==========================================================================
